---- MODULE Spec2Model ----
(***************************************************************************)
(* Dialogue orchestration layer of the assistant (src/main.py): the        *)
(* per-session conversation state, the pending-action protocol and the     *)
(* response contract (src/engine/presenter.py).                            *)
(*                                                                         *)
(* Text is modelled as TLA+ strings, character by character: Len, SubSeq   *)
(* and \o are the only primitives, and Python's str methods and the        *)
(* regular expressions of the source are operators built from them.        *)
(***************************************************************************)
EXTENDS Integers, Sequences, FiniteSets, TLC

(***************************************************************************)
(* Python str primitives                                                   *)
(***************************************************************************)
UpperAlpha == "ABCDEFGHIJKLMNOPQRSTUVWXYZ"
LowerAlpha == "abcdefghijklmnopqrstuvwxyz"
Digits == "0123456789"

Ch(s, i) == SubSeq(s, i, i)

\* position of the one-character string c in alphabet a, 0 when absent
IndexIn(a, c) ==
    IF \E i \in 1..Len(a) : Ch(a, i) = c
    THEN CHOOSE i \in 1..Len(a) : Ch(a, i) = c
    ELSE 0

UpperSet == {Ch(UpperAlpha, i) : i \in 1..Len(UpperAlpha)}
LowerSet == {Ch(LowerAlpha, i) : i \in 1..Len(LowerAlpha)}
DigitSet == {Ch(Digits, i) : i \in 1..Len(Digits)}
AlphaSet == UpperSet \cup LowerSet
\* \s of the re module and the characters str.strip() removes
SpaceSet == {" ", "\n", "\t"}
\* \w of the re module
WordSet == AlphaSet \cup DigitSet \cup {"_"}
LowerCh(c) == IF c \in UpperSet THEN Ch(LowerAlpha, IndexIn(UpperAlpha, c)) ELSE c
UpperCh(c) == IF c \in LowerSet THEN Ch(UpperAlpha, IndexIn(LowerAlpha, c)) ELSE c

RECURSIVE Cat(_, _, _)
\* "".join(f[lo..hi]), joined by halves
Cat(f, lo, hi) ==
    IF lo > hi THEN ""
    ELSE IF lo = hi THEN f[lo]
    ELSE Cat(f, lo, (lo + hi) \div 2) \o Cat(f, ((lo + hi) \div 2) + 1, hi)

\* s.upper()
Upper(s) ==
    IF \A i \in 1..Len(s) : Ch(s, i) \notin LowerSet THEN s
    ELSE Cat([i \in 1..Len(s) |-> UpperCh(Ch(s, i))], 1, Len(s))

\* str.lower()
Lower(s) ==
    IF \A i \in 1..Len(s) : Ch(s, i) \notin UpperSet THEN s
    ELSE Cat([i \in 1..Len(s) |-> LowerCh(Ch(s, i))], 1, Len(s))

\* the first position from i on whose character is not in cs, Len(s) + 1 when
\* there is none
FirstOutside(s, i, cs) ==
    CHOOSE j \in i..(Len(s) + 1) :
        /\ (j > Len(s) \/ Ch(s, j) \notin cs)
        /\ \A k \in i..(j - 1) : Ch(s, k) \in cs

\* str.strip(chars): the leading run of chars removed, then the trailing one
StripSet(s, cs) ==
    LET rstrip(t) ==
            SubSeq(t, 1, CHOOSE j \in 0..Len(t) :
                            /\ (j = 0 \/ Ch(t, j) \notin cs)
                            /\ \A k \in (j + 1)..Len(t) : Ch(t, k) \in cs)
    IN  rstrip(SubSeq(s, FirstOutside(s, 1, cs), Len(s)))

\* str.strip()
Strip(s) == StripSet(s, SpaceSet)

\* t in s
Contains(s, t) ==
    \E i \in 1..(Len(s) - Len(t) + 1) : SubSeq(s, i, i + Len(t) - 1) = t

\* s.startswith(t), s.endswith(t)
StartsWith(s, t) == Len(t) <= Len(s) /\ SubSeq(s, 1, Len(t)) = t
EndsWith(s, t) == Len(t) <= Len(s) /\ SubSeq(s, Len(s) - Len(t) + 1, Len(s)) = t

\* s.find(t): 1-based position of the first occurrence, 0 when absent
Find(s, t) ==
    IF Contains(s, t)
    THEN CHOOSE i \in 1..(Len(s) - Len(t) + 1) :
            /\ SubSeq(s, i, i + Len(t) - 1) = t
            /\ \A j \in 1..(i - 1) : SubSeq(s, j, j + Len(t) - 1) # t
    ELSE 0

\* length of the longest prefix of s from position i whose characters satisfy
\* membership in the set cs of one-character strings
RunLen(s, i, cs) == IF i > Len(s) THEN 0 ELSE FirstOutside(s, i, cs) - i

\* the first position from i on that satisfies stop (a set of characters),
\* Len(s) + 1 when there is none
FirstInside(s, i, stop) ==
    CHOOSE j \in i..(Len(s) + 1) :
        /\ (j > Len(s) \/ Ch(s, j) \in stop)
        /\ \A k \in i..(j - 1) : Ch(s, k) \notin stop

\* str.split(): the whitespace-separated tokens
Split(s) ==
    LET token(j) == SubSeq(s, j, FirstInside(s, j, SpaceSet) - 1)
        tokens(starts) ==
            [k \in 1..Cardinality(starts) |->
                token(CHOOSE j \in starts : Cardinality({h \in starts : h < j}) = k - 1)]
    IN  tokens({j \in 1..Len(s) : Ch(s, j) \notin SpaceSet /\ (j = 1 \/ Ch(s, j - 1) \in SpaceSet)})

\* the smallest member of a non-empty set of integers
MinOf(S) == CHOOSE m \in S : \A n \in S : m <= n

RECURSIVE ParseInt(_)
\* int(digits)
ParseInt(d) ==
    IF d = "" THEN 0
    ELSE 10 * ParseInt(SubSeq(d, 1, Len(d) - 1)) + (IndexIn(Digits, Ch(d, Len(d))) - 1)

\* the last line of s: s.splitlines()[-1] for a non-empty s not ending in a newline
LastLine(s) ==
    LET after(breaks) ==
            SubSeq(s, 1 + (IF breaks = {} THEN 0 ELSE CHOOSE i \in breaks : \A j \in breaks : j <= i),
                   Len(s))
    IN  after({i \in 1..Len(s) : Ch(s, i) = "\n"})

\* sep.join(parts)
JoinWith(parts, sep) ==
    Cat([k \in 1..(2 * Len(parts) - 1) |-> IF k % 2 = 1 THEN parts[(k + 1) \div 2] ELSE sep],
        1, 2 * Len(parts) - 1)

(***************************************************************************)
(* Optional values: Python's None is the empty sequence, a value v is <<v>> *)
(***************************************************************************)
NoneV == << >>
Some(v) == << v >>
IsNone(o) == o = << >>
Val(o) == o[1]

(***************************************************************************)
(* Pending-action resolver: src/main.py                                    *)
(***************************************************************************)
\* _is_affirmative
IsAffirmative(cmd) ==
    Lower(Strip(cmd)) \in {"yes", "yeah", "yep", "ok", "okay", "do it", "go ahead", "sure"}

\* _is_negative
IsNegative(cmd) ==
    Lower(Strip(cmd)) \in {"no", "nope", "cancel", "stop", "not now"}

\* group(1) of the leftmost match of r"\boption\s*(\d+)\b", NoneV without a match
OptionRef(text) ==
    LET \* the digits of a match with "option" at i, sp blanks and d digits after it
        digits(i, sp, d) == SubSeq(text, i + 6 + sp, i + 5 + sp + d)
        \* whether the digits end the match at a word boundary
        bounded(i, sp, d) ==
            d >= 1 /\ (i + 6 + sp + d > Len(text) \/ Ch(text, i + 6 + sp + d) \notin WordSet)
        afterBlanks(i, sp) == bounded(i, sp, RunLen(text, i + 6 + sp, DigitSet))
        at(i) == /\ i + 5 <= Len(text)
                 /\ SubSeq(text, i, i + 5) = "option"
                 /\ (i = 1 \/ Ch(text, i - 1) \notin WordSet)
                 /\ afterBlanks(i, RunLen(text, i + 6, SpaceSet))
        from(i, sp) == digits(i, sp, RunLen(text, i + 6 + sp, DigitSet))
        leftmost(hits) ==
            IF hits = {} THEN NoneV
            ELSE Some(from(MinOf(hits), RunLen(text, MinOf(hits) + 6, SpaceSet)))
    IN  leftmost({i \in 1..Len(text) : at(i)})

\* str(option.get("command", "")).strip() or None
CommandOrNone(option) ==
    LET orNone(command) == IF command = "" THEN NoneV ELSE Some(command)
    IN  orNone(Strip(option.command))

\* line 319: the label test of one option
LabelMatches(text, option) ==
    LET anyToken(label, toks) == \E k \in 1..Len(toks) : Contains(label, toks[k])
        matches(label) ==
            /\ label # ""
            /\ (text = label \/ Contains(text, label) \/ anyToken(label, Split(text)))
    IN  matches(Lower(Strip(option.label)))

\* line 321: the command test of one option
CommandMatches(text, option) ==
    LET matches(command) == command # "" /\ Contains(command, text)
    IN  matches(Lower(Strip(option.command)))

RECURSIVE MatchLoop(_, _, _)
\* a resolver that skips the index stage of lines 311-315
MatchWithoutIndex(cmd, pending) == MatchLoop(Lower(Strip(cmd)), pending.options, 1)

\* lines 316-323: the for loop over the options, from option k on
MatchLoop(text, options, k) ==
    IF k > Len(options) THEN NoneV
    ELSE IF LabelMatches(text, options[k]) THEN CommandOrNone(options[k])
    ELSE IF CommandMatches(text, options[k]) THEN CommandOrNone(options[k])
    ELSE MatchLoop(text, options, k + 1)

\* _match_pending_option
MatchPendingOption(cmd, pending) ==
    LET options == pending.options
        byIndex(text, idx) ==
            IF 0 <= idx /\ idx < Len(options)
            THEN CommandOrNone(options[idx + 1])
            ELSE MatchLoop(text, options, 1)
        byRef(text, ref) ==
            IF IsNone(ref) THEN MatchLoop(text, options, 1)
            ELSE byIndex(text, ParseInt(Val(ref)) - 1)
        match(text) == byRef(text, OptionRef(text))
    IN  match(Lower(Strip(cmd)))

(***************************************************************************)
(* Response builder: src/engine/presenter.py                               *)
(***************************************************************************)
\* DEFAULT_VERBOSITY; get_verbosity() with ASSISTANT_VERBOSITY unset
Verbosity == "quick"

\* _sentence_limit_for_verbosity
SentenceLimitForVerbosity(level) ==
    IF level = "detailed" THEN 8 ELSE IF level = "standard" THEN 5 ELSE 3

\* re.sub(r"\s+", " ", text).strip()
CollapseWs(text) ==
    IF /\ \A i \in 1..Len(text) : Ch(text, i) \notin {"\n", "\t"}
       /\ ~Contains(text, "  ")
       /\ ~StartsWith(text, " ")
       /\ ~EndsWith(text, " ")
    THEN text
    ELSE JoinWith(Split(text), " ")

\* _limit_sentences: the first maxSentences parts of
\* re.split(r"(?<=[.!?])\s+", clean), joined by one space
LimitSentences(text, maxSentences) ==
    LET first(toks) ==
            LET ends(j) == toks[j] # "" /\ Ch(toks[j], Len(toks[j])) \in {".", "!", "?"}
                endsBefore(i) == Cardinality({j \in 1..(i - 1) : ends(j)})
            IN  SubSeq(toks, 1, Cardinality({i \in 1..Len(toks) : endsBefore(i) < maxSentences}))
    IN  JoinWith(first(Split(text)), " ")

RECURSIVE SubFrom(_, _, _, _)
\* re.sub over s from position i: lenf[i] is the length of the match that starts
\* at i (0 when none starts there), repf[i] what replaces it
SubFrom(s, lenf, repf, i) ==
    LET starts == {j \in i..Len(s) : lenf[j] > 0}
        j == CHOOSE a \in starts : \A b \in starts : a <= b
    IN  IF i > Len(s) THEN ""
        ELSE IF starts = {} THEN SubSeq(s, i, Len(s))
        ELSE SubSeq(s, i, j - 1) \o repf[j] \o SubFrom(s, lenf, repf, j + lenf[j])

\* re.sub(r"\b<lit>\b", rep, s, flags=re.IGNORECASE) for a lower-case literal of
\* word characters and spaces that starts and ends with a word character
SubWordLiteral(s, lit, rep) ==
    LET sub(ls) ==
            IF ~Contains(ls, lit) THEN s
            ELSE SubFrom(s,
                         [i \in 1..Len(s) |->
                            IF /\ i + Len(lit) - 1 <= Len(s)
                               /\ SubSeq(ls, i, i + Len(lit) - 1) = lit
                               /\ (i = 1 \/ Ch(s, i - 1) \notin WordSet)
                               /\ (i + Len(lit) > Len(s) \/ Ch(s, i + Len(lit)) \notin WordSet)
                            THEN Len(lit) ELSE 0],
                         [i \in 1..Len(s) |-> rep], 1)
    IN  sub(Lower(s))

\* re.search(r"\b<lit>\b", s) for a literal that starts and ends with a word character
HasWord(s, lit) ==
    \E i \in 1..(Len(s) - Len(lit) + 1) :
        /\ SubSeq(s, i, i + Len(lit) - 1) = lit
        /\ (i = 1 \/ Ch(s, i - 1) \notin WordSet)
        /\ (i + Len(lit) > Len(s) \/ Ch(s, i + Len(lit)) \notin WordSet)

\* re.search(r"\b<w1>\s+<w2>\b", s)
HasWordPair(s, w1, w2) ==
    LET \* w1 ends before p, sp blanks follow it
        second(p, sp) ==
            /\ sp >= 1
            /\ p + sp + Len(w2) - 1 <= Len(s)
            /\ SubSeq(s, p + sp, p + sp + Len(w2) - 1) = w2
            /\ (p + sp + Len(w2) > Len(s) \/ Ch(s, p + sp + Len(w2)) \notin WordSet)
    IN  \E i \in 1..(Len(s) - Len(w1) + 1) :
            /\ SubSeq(s, i, i + Len(w1) - 1) = w1
            /\ (i = 1 \/ Ch(s, i - 1) \notin WordSet)
            /\ second(i + Len(w1), RunLen(s, i + Len(w1), SpaceSet))

\* _clean_tone with _BANNED_TONE
CleanTone(text) ==
    CollapseWs(
        SubWordLiteral(
            SubWordLiteral(
                SubWordLiteral(
                    SubWordLiteral(Strip(text), "human", ""),
                    "as jarvis", ""),
                "doctor diagnosis", ""),
            "excellent task", ""))

RECURSIVE IntToStr(_)
\* str(n) for n >= 0
IntToStr(n) ==
    IF n < 10 THEN Ch(Digits, n + 1) ELSE IntToStr(n \div 10) \o Ch(Digits, (n % 10) + 1)

\* sanitize_for_tts
SanitizeForTts(text, sourceCount) ==
    LET \* length of the r"https?://" prefix of s at position i, 0 when there is none
        scheme(s, i) ==
            IF i + 6 <= Len(s) /\ SubSeq(s, i, i + 6) = "http://" THEN 7
            ELSE IF i + 7 <= Len(s) /\ SubSeq(s, i, i + 7) = "https://" THEN 8
            ELSE 0
        \* number of characters of s from position i on that are not in stop
        until(s, i, stop) == IF i > Len(s) THEN 0 ELSE FirstInside(s, i, stop) - i
        \* re.sub(pattern, repf, s) with lenf[i] the length of the match at i
        sub(s, found, lenf, repf) == IF found THEN SubFrom(s, lenf, repf, 1) ELSE s
        \* line 65: re.sub(r"\[([^\]]+)\]\((https?://[^)]+)\)", r"\1", s), a match at i
        \* being "[", lab characters, "](", a scheme of sch characters, url more, ")"
        linkLen(s, i, lab, sch, url) ==
            IF /\ Ch(s, i) = "["
               /\ lab >= 1
               /\ i + lab + 2 <= Len(s)
               /\ SubSeq(s, i + lab + 1, i + lab + 2) = "]("
               /\ sch > 0
               /\ url >= 1
               /\ i + lab + 3 + sch + url <= Len(s)
            THEN lab + 4 + sch + url ELSE 0
        linkUrl(s, i, lab, sch) == linkLen(s, i, lab, sch, until(s, i + lab + 3 + sch, {")"}))
        linkLabel(s, i, lab) == linkUrl(s, i, lab, scheme(s, i + lab + 3))
        linksBy(s, lenf) ==
            sub(s, Contains(s, "]("), lenf,
                [i \in 1..Len(s) |-> SubSeq(s, i + 1, i + until(s, i + 1, {"]"}))])
        links(s) == linksBy(s, [i \in 1..Len(s) |-> linkLabel(s, i, until(s, i + 1, {"]"}))])
        \* line 66: re.sub(r"https?://\S+", "", s)
        urlLen(sch, rest) == IF sch > 0 /\ rest >= 1 THEN sch + rest ELSE 0
        urlAt(s, i, sch) == urlLen(sch, until(s, i + sch, SpaceSet))
        urls(s) ==
            sub(s, Contains(s, "://"), [i \in 1..Len(s) |-> urlAt(s, i, scheme(s, i))],
                [i \in 1..Len(s) |-> ""])
        \* line 67: re.sub(r"\b[a-f0-9]{8,}\b", "", s, flags=re.IGNORECASE)
        hex == DigitSet \cup {"a", "b", "c", "d", "e", "f", "A", "B", "C", "D", "E", "F"}
        hexLen(s, i, run) ==
            IF /\ (i = 1 \/ Ch(s, i - 1) \notin WordSet)
               /\ run >= 8
               /\ (i + run > Len(s) \/ Ch(s, i + run) \notin WordSet)
            THEN run ELSE 0
        hexTokens(s) ==
            sub(s, \E i \in 1..(Len(s) - 7) : RunLen(s, i, hex) >= 8,
                [i \in 1..Len(s) |-> hexLen(s, i, RunLen(s, i, hex))],
                [i \in 1..Len(s) |-> ""])
        \* line 68: re.sub(r"[{}[\]]", "", s)
        brackets(s) ==
            IF \E i \in 1..Len(s) : Ch(s, i) \in {"{", "}", "[", "]"}
            THEN Cat([i \in 1..Len(s) |-> IF Ch(s, i) \in {"{", "}", "[", "]"} THEN "" ELSE Ch(s, i)],
                     1, Len(s))
            ELSE s
        \* lines 71-72
        attach(s) ==
            IF sourceCount > 0 /\ ~Contains(Lower(s), "source")
            THEN s \o ". I attached " \o IntToStr(sourceCount) \o " sources."
            ELSE s
        orDone(s) == IF s = "" THEN "Done." ELSE s
    IN  orDone(attach(LimitSentences(
            StripSet(CollapseWs(brackets(hexTokens(urls(links(Strip(text)))))),
                     {" ", ",", ".", "-"}),
            2)))

\* debug.update(b): the dict a with the entries of b written over it
DictUpdate(a, b) ==
    [k \in (DOMAIN a) \cup (DOMAIN b) |-> IF k \in DOMAIN b THEN b[k] ELSE a[k]]

\* meta.debug: the keys the program ever stores, each absent (NoneV) or Some(value)
NoDebug ==
    [source_count |-> NoneV, research_reason |-> NoneV, needs_evidence |-> NoneV,
     resolved_from_pending |-> NoneV, stt_corrections |-> NoneV, normalized_text |-> NoneV]

\* [f(x) for x in xs]
RECURSIVE PrefixEach(_, _)
PrefixEach(xs, pre) ==
    IF xs = << >> THEN << >> ELSE << pre \o Head(xs) >> \o PrefixEach(Tail(xs), pre)

\* xs[:n]
Take(xs, n) == SubSeq(xs, 1, IF Len(xs) < n THEN Len(xs) ELSE n)

RECURSIVE CleanBullets(_)
\* [_clean_tone(b) for b in bullets if b and b.strip()]
CleanBullets(bs) ==
    IF bs = << >> THEN << >>
    ELSE (IF Strip(Head(bs)) # "" THEN << CleanTone(Head(bs)) >> ELSE << >>)
         \o CleanBullets(Tail(bs))

RECURSIVE StripNonEmpty(_)
\* [str(i).strip() for i in items if str(i).strip()]
StripNonEmpty(items) ==
    IF items = << >> THEN << >>
    ELSE (IF Strip(Head(items)) # "" THEN << Strip(Head(items)) >> ELSE << >>)
         \o StripNonEmpty(Tail(items))

RECURSIVE SectionLines(_, _)
\* lines 112-120: the lines of the sections that have a title and items
SectionLines(sections, v) ==
    LET lines(title, items) ==
            IF title = "" \/ items = << >> THEN << >>
            ELSE << "", "**" \o title \o "**" >>
                 \o PrefixEach(Take(items, IF v = "quick" THEN 2 ELSE IF v = "standard" THEN 3 ELSE 5),
                               "- ")
    IN  IF sections = << >> THEN << >>
        ELSE lines(Strip(Head(sections).title), StripNonEmpty(Head(sections).items))
             \o SectionLines(Tail(sections), v)

RECURSIVE RenderSources(_)
\* _render_sources
RenderSources(sources) ==
    IF sources = << >> THEN << >>
    ELSE << "- " \o Head(sources).title \o " - " \o Head(sources).domain
            \o " (used for: " \o Head(sources).note \o ")" >>
         \o RenderSources(Tail(sources))

RECURSIVE SourceLinks(_)
\* lines 140-152: one link evidence item per source that has a url
SourceLinks(sources) ==
    IF sources = << >> THEN << >>
    ELSE (IF Head(sources).url # ""
          THEN << [type |-> "link", title |-> Head(sources).title] >>
          ELSE << >>)
         \o SourceLinks(Tail(sources))

\* a make_response whose dictionary has no files key
MakeResponseWithoutFiles(given) ==
    LET contract(a) ==
            [say_text  |-> IF a.say_text # "" THEN a.say_text ELSE a.summary,
             show_text |-> Strip(a.summary
                                 \o (IF a.question # "" THEN "\n\n" \o a.question \o "?" ELSE "")),
             evidence  |-> a.evidence,
             actions   |-> a.actions,
             meta      |-> [intent |-> a.intent, verbosity |-> Verbosity,
                            sources |-> a.sources, debug |-> DictUpdate(NoDebug, a.debug)]]
    IN  contract(DictUpdate([summary |-> "", bullets |-> << >>, sections |-> << >>,
                             sources |-> << >>, evidence |-> << >>, files |-> << >>,
                             actions |-> << >>, intent |-> "general", say_text |-> "",
                             question |-> "", debug |-> NoDebug],
                            given))

\* make_response: given holds the keyword arguments that are passed
MakeResponse(given) ==
    LET v == Verbosity
        withMark(q) == IF q # "" /\ ~EndsWith(q, "?") THEN q \o "?" ELSE q
        top(line) == IF line # "" THEN << line >> ELSE << >>
        found(rendered) ==
            IF rendered # << >>
            THEN << "", "**What I found**" >>
                 \o Take(rendered, IF v = "quick" THEN 3 ELSE 5)
                 \o << "- Source links are attached below." >>
            ELSE << >>
        \* lines 104-136 on the keyword arguments a
        show(a) ==
            Strip(JoinWith(
                top(CleanTone(LimitSentences(a.summary, SentenceLimitForVerbosity(v))))
                \o PrefixEach(Take(CleanBullets(a.bullets),
                                   IF v = "quick" THEN 2 ELSE IF v = "standard" THEN 4 ELSE 5),
                              "- ")
                \o SectionLines(a.sections, v)
                \o found(RenderSources(a.sources))
                \o (IF a.question # "" THEN << "", withMark(Strip(a.question)) >> ELSE << >>),
                "\n"))
        \* lines 137-167
        contract(a, showText) ==
            [say_text  |-> SanitizeForTts(
                             IF a.say_text # "" THEN a.say_text
                             ELSE IF a.summary # "" THEN a.summary ELSE showText,
                             Len(a.sources)),
             show_text |-> showText,
             evidence  |-> a.evidence \o SourceLinks(a.sources),
             files     |-> a.files,
             actions   |-> a.actions,
             meta      |-> [intent |-> a.intent, verbosity |-> v,
                            sources |-> a.sources, debug |-> DictUpdate(NoDebug, a.debug)]]
        build(a) == contract(a, show(a))
    IN  \* the keyword arguments and their defaults (None is "" for the strings,
        \* the empty sequence for the lists and the dict)
        build(DictUpdate([summary |-> "", bullets |-> << >>, sections |-> << >>,
                          sources |-> << >>, evidence |-> << >>, files |-> << >>,
                          actions |-> << >>, intent |-> "general", say_text |-> "",
                          question |-> "", debug |-> NoDebug],
                         given))

(***************************************************************************)
(* Deriving the next pending action: src/main.py                           *)
(***************************************************************************)
RECURSIVE WithCommand(_)
\* [a for a in resp["actions"] if isinstance(a, dict) and a.get("command")]
WithCommand(actions) ==
    IF actions = << >> THEN << >>
    ELSE (IF Head(actions).command # "" THEN << Head(actions) >> ELSE << >>)
         \o WithCommand(Tail(actions))

RECURSIVE StripOptions(_)
\* line 295: label and command of every action, stripped
StripOptions(actions) ==
    IF actions = << >> THEN << >>
    ELSE << [label |-> Strip(Head(actions).label), command |-> Strip(Head(actions).command)] >>
         \o StripOptions(Tail(actions))

\* lines 286-289: the question line of the response
QuestionLine(resp) ==
    LET lastOf(showText) == IF EndsWith(showText, "?") THEN Strip(LastLine(showText)) ELSE ""
    IN  lastOf(Strip(resp.show_text))

\* a derivation without the early return of lines 290-291
PendingFromAnyResponse(resp) ==
    LET pending(actions, questionLine) ==
            Some([type |-> IF resp.meta.intent # "" THEN resp.meta.intent ELSE "follow_up",
                  question |-> questionLine,
                  options |-> StripOptions(actions),
                  default_command |-> IF actions # << >> THEN Strip(actions[1].command) ELSE ""])
    IN  pending(WithCommand(resp.actions), QuestionLine(resp))

\* _pending_from_response
PendingFromResponse(resp) ==
    LET pending(actions, questionLine) ==
            IF actions = << >> /\ questionLine = "" THEN NoneV
            ELSE Some([type |-> IF resp.meta.intent # "" THEN resp.meta.intent ELSE "follow_up",
                       question |-> questionLine,
                       options |-> StripOptions(actions),
                       default_command |-> IF actions # << >> THEN Strip(actions[1].command)
                                           ELSE ""])
    IN  pending(WithCommand(resp.actions), QuestionLine(resp))

(***************************************************************************)
(* Slot extraction, classification and normalisation: src/main.py          *)
(***************************************************************************)
STATE_FIELDS == <<"company_name", "domain", "chosen_workflow_area", "goal", "compliance_level">>

AlnumSet == AlphaSet \cup DigitSet
\* [a-zA-Z0-9\s&-]
CompanyClass == AlnumSet \cup SpaceSet \cup {"&", "-"}
\* [a-zA-Z0-9\s,-]
GoalClass == AlnumSet \cup SpaceSet \cup {",", "-"}

\* group(1).strip() of r"\s+(<cls>+)" (minWs = 1) or r"\s*(<cls>+)" (minWs = 0)
\* matched at position p, greedy with backtracking; NoneV when it cannot match
GreedyGroup(text, p, cls, minWs) ==
    LET \* after w blanks, r characters of the class
        group(w, r) ==
            IF w < minWs THEN NoneV
            ELSE IF r >= 1 THEN Some(Strip(SubSeq(text, p + w, p + w + r - 1)))
            ELSE IF w > minWs THEN Some("")
            ELSE NoneV
        after(w) == group(w, RunLen(text, p + w, cls))
    IN  after(RunLen(text, p, SpaceSet))

\* _extract_first(text, r"for\s+([a-zA-Z0-9\s&-]+?)\s+company")
ExtractCompanyLazy(text) ==
    LET \* the group may end at e: before a run of sp blanks that "company" follows
        endsAt(lt, e, sp) ==
            /\ sp >= 1
            /\ e + sp + 7 <= Len(text)
            /\ SubSeq(lt, e + sp + 1, e + sp + 7) = "company"
        \* group(1).strip() of r"\s+([a-zA-Z0-9\s&-]+?)\s+company" after w blanks,
        \* the group starting at g; NoneV when it cannot match
        shortest(lt, w, g, ends) ==
            IF w < 1 THEN NoneV
            ELSE IF ends # {} THEN Some(Strip(SubSeq(text, g, MinOf(ends))))
            ELSE IF w >= 3 /\ g + 6 <= Len(text) /\ SubSeq(lt, g, g + 6) = "company" THEN Some("")
            ELSE NoneV
        within(lt, w, g, run) ==
            shortest(lt, w, g,
                     {e \in g..(g + run - 1) : endsAt(lt, e, RunLen(text, e + 1, SpaceSet))})
        blanks(lt, p, w) == within(lt, w, p + w, RunLen(text, p + w, CompanyClass))
        \* the match at position p, right after "for"
        group(lt, p) == blanks(lt, p, RunLen(text, p, SpaceSet))
        first(lt, hits) == IF hits = {} THEN "" ELSE Val(group(lt, MinOf(hits) + 3))
        search(lt) ==
            first(lt, {i \in 1..(Len(text) - 2) :
                          SubSeq(lt, i, i + 2) = "for" /\ ~IsNone(group(lt, i + 3))})
    IN  search(Lower(text))

\* _extract_first(text, r"for\s+([a-zA-Z0-9\s&-]+)")
ExtractCompanyGreedy(text) ==
    LET first(hits) ==
            IF hits = {} THEN "" ELSE Val(GreedyGroup(text, MinOf(hits) + 3, CompanyClass, 1))
        search(lt) ==
            first({i \in 1..(Len(text) - 2) :
                      SubSeq(lt, i, i + 2) = "for"
                      /\ ~IsNone(GreedyGroup(text, i + 3, CompanyClass, 1))})
    IN  search(Lower(text))

\* _extract_first(text, r"goal\s*(?:is|:)\s*([a-zA-Z0-9\s,-]+)")
ExtractGoal(text) ==
    LET \* position after r"goal\s*(?:is|:)" matched at i, the blanks ending before p;
        \* 0 when it does not match there
        after(lt, i, p) ==
            IF ~(i + 3 <= Len(lt) /\ SubSeq(lt, i, i + 3) = "goal") THEN 0
            ELSE IF p + 1 <= Len(lt) /\ SubSeq(lt, p, p + 1) = "is" THEN p + 2
            ELSE IF p <= Len(lt) /\ Ch(lt, p) = ":" THEN p + 1
            ELSE 0
        prefixEnd(lt, i) == after(lt, i, i + 4 + RunLen(lt, i + 4, SpaceSet))
        group(e) == IF e > 0 THEN GreedyGroup(text, e, GoalClass, 0) ELSE NoneV
        first(lt, hits) == IF hits = {} THEN "" ELSE Val(group(prefixEnd(lt, MinOf(hits))))
        search(lt) ==
            IF ~Contains(lt, "goal") THEN ""
            ELSE first(lt, {i \in 1..Len(text) : ~IsNone(group(prefixEnd(lt, i)))})
    IN  search(Lower(text))

\* str.title(): an alphabetic character is upper-cased when it starts a word
\* and lower-cased otherwise
Title(s) ==
    Cat([k \in 1..Len(s) |->
            LET c == Ch(s, k)
                cased == k > 1 /\ Ch(s, k - 1) \in AlphaSet
            IN  IF c \in AlphaSet THEN (IF cased THEN LowerCh(c) ELSE UpperCh(c)) ELSE c],
        1, Len(s))

RECURSIVE FirstIn(_, _)
\* the first keyword of the list that occurs in lowered, "" when none does
FirstIn(words, lowered) ==
    IF words = << >> THEN ""
    ELSE IF Contains(lowered, Head(words)) THEN Head(words)
    ELSE FirstIn(Tail(words), lowered)

\* line 105 raises IndexError when " to " occurs in the lowered text only
GoalSplitRaises(state, text) ==
    /\ ExtractGoal(text) = ""
    /\ Contains(Lower(text), " to ")
    /\ state.goal = ""
    /\ ~Contains(text, " to ")

\* a slot update without the `not state.get(...)` guards of lines 90 and 96
UpdateStateOverwriting(state, text) ==
    [state EXCEPT
        !.domain = FirstIn(<<"health", "finance", "retail", "education", "logistics", "insurance">>,
                           Lower(text)),
        !.chosen_workflow_area =
            FirstIn(<<"claims", "billing", "onboarding", "support", "audit", "compliance",
                      "reporting", "sales">>, Lower(text))]

\* _update_state_from_text (when line 105 does not raise)
UpdateStateFromText(state, text) ==
    LET \* lines 85-88
        orGreedy(c1) == IF c1 # "" THEN c1 ELSE ExtractCompanyGreedy(text)
        company(lowered) ==
            IF ~Contains(lowered, "for") THEN "" ELSE orGreedy(ExtractCompanyLazy(text))
        named(c) == IF c # "" /\ state.company_name = "" THEN Title(c) ELSE state.company_name
        \* lines 103-107; line 105 is text.split(" to ", 1)[1].strip(" .")
        orAfterTo(lowered, g1) ==
            IF g1 = "" /\ Contains(lowered, " to ") /\ state.goal = ""
            THEN StripSet(SubSeq(text, Find(text, " to ") + 4, Len(text)), {" ", "."})
            ELSE g1
        aimed(g) == IF g # "" /\ state.goal = "" THEN g ELSE state.goal
        \* lines 109-116
        level(lowered) ==
            IF Contains(lowered, "hipaa") THEN "hipaa"
            ELSE IF Contains(lowered, "soc 2") \/ Contains(lowered, "soc2") THEN "soc2"
            ELSE IF Contains(lowered, "gdpr") THEN "gdpr"
            ELSE IF Contains(lowered, "high compliance") THEN "high"
            ELSE ""
        update(lowered) ==
            [company_name |-> named(company(lowered)),
             domain |->
                IF state.domain = ""
                THEN FirstIn(<<"health", "finance", "retail", "education", "logistics", "insurance">>,
                             lowered)
                ELSE state.domain,
             chosen_workflow_area |->
                IF state.chosen_workflow_area = ""
                THEN FirstIn(<<"claims", "billing", "onboarding", "support", "audit", "compliance",
                               "reporting", "sales">>, lowered)
                ELSE state.chosen_workflow_area,
             goal |-> aimed(orAfterTo(lowered, ExtractGoal(text))),
             compliance_level |->
                IF state.compliance_level = "" THEN level(lowered) ELSE state.compliance_level]
    IN  update(Lower(text))

\* _looks_cutoff
LooksCutoff(text) ==
    LET cutoff(t) ==
            IF t = "" THEN FALSE
            ELSE IF t \in {"hi", "hello", "hey", "yo"} THEN FALSE
            ELSE IF Len(t) <= 3 THEN TRUE
            ELSE \/ t \in {"and", "so", "uh", "umm", "hmm", "wait", "then", "..."}
                 \/ EndsWith(t, "...") \/ EndsWith(t, ",") \/ EndsWith(t, " and") \/ EndsWith(t, " so")
    IN  cutoff(Lower(Strip(text)))

RECURSIVE TopicAfter(_, _, _)
TopicAfter(prefixes, t, lowered) ==
    IF prefixes = << >> THEN t
    ELSE IF StartsWith(lowered, Head(prefixes))
         THEN StripSet(SubSeq(t, Len(Head(prefixes)) + 1, Len(t)), {" ", "."})
         ELSE TopicAfter(Tail(prefixes), t, lowered)

\* _extract_research_topic
ExtractResearchTopic(text) ==
    LET after(t) ==
            TopicAfter(<<"research ", "find research on ", "research on ", "research about ">>,
                       t, Lower(t))
    IN  after(Strip(text))

\* _resolve_export_target: "" is None
ResolveExportTarget(cmd) ==
    LET target(c) ==
            IF Contains(c, "word") \/ Contains(c, "docx") THEN "docx"
            ELSE IF Contains(c, "powerpoint") \/ Contains(c, "ppt") \/ Contains(c, "slides") THEN "pptx"
            ELSE IF Contains(c, "excel") \/ Contains(c, "xlsx") \/ Contains(c, "spreadsheet") THEN "xlsx"
            ELSE ""
    IN  target(Lower(cmd))

\* _is_research_request
IsResearchRequest(cmd) ==
    \/ HasWord(cmd, "research")
    \/ HasWord(cmd, "find")
    \/ HasWordPair(cmd, "look", "up")
    \/ HasWordPair(cmd, "web", "research")
    \/ HasWordPair(cmd, "search", "for")

\* _is_project_analysis_request
IsProjectAnalysisRequest(cmd) ==
    \E m \in {"project risk", "risk analysis", "deadline risk", "status report", "project health"} :
        Contains(cmd, m)

\* a classifier that tests the research rule before the research_plan rule
ClassifyResearchFirst(cmd, hasActive) ==
    IF IsResearchRequest(cmd) THEN "research"
    ELSE IF IsProjectAnalysisRequest(cmd) /\ hasActive THEN "project_analysis"
    ELSE IF Contains(cmd, "open gmail") THEN "open_gmail"
    ELSE IF ResolveExportTarget(cmd) # "" THEN "export_ref"
    ELSE "default"

\* _classify_intent; hasActive is the truth of get_active_project()
ClassifyIntent(cmd, hasActive) ==
    LET classify(research) ==
            IF research /\ (Contains(cmd, "plan") \/ Contains(cmd, "workflow")) THEN "research_plan"
            ELSE IF research THEN "research"
            ELSE IF IsProjectAnalysisRequest(cmd) /\ hasActive THEN "project_analysis"
            ELSE IF Contains(cmd, "open gmail") THEN "open_gmail"
            ELSE IF \/ Contains(cmd, "summarise the last email")
                    \/ Contains(cmd, "summarize the last email")
                    \/ Contains(cmd, "read last email") THEN "gmail_summary"
            ELSE IF Contains(cmd, "open youtube") THEN "open_youtube"
            ELSE IF Contains(cmd, "open a new tab") \/ "new tab" = Strip(cmd) THEN "open_new_tab"
            ELSE IF ResolveExportTarget(cmd) # "" THEN "export_ref"
            ELSE "default"
    IN  classify(IsResearchRequest(cmd))

\* has_images, for files given as dicts with "type" and "name"
HasImages(files) ==
    \E k \in 1..Len(files) :
        \/ StartsWith(Lower(files[k].type), "image/")
        \/ \E e \in {".png", ".jpg", ".jpeg", ".gif", ".webp", ".bmp", ".tiff"} :
                EndsWith(Lower(files[k].name), e)

\* _is_greeting
IsGreeting(cmd) ==
    cmd \in {"hi", "hello", "hey", "yo", "good morning", "good afternoon", "good evening"}

\* _needs_workflow_clarification
NeedsWorkflowClarification(cmd) ==
    LET wantsWorkflow == \E k \in {"workflow", "automate", "automation", "work plan", "project plan"} :
                            Contains(cmd, k)
        hasTarget == \E k \in {"for ", "company", "team", "department", "health", "finance", "retail"} :
                            Contains(cmd, k)
    IN  wantsWorkflow /\ ~hasTarget

\* _normalize_stt_text: the normalized text and the list of correction tags
NormalizeSttText(text) ==
    LET \* r1, r2, r3: whether the correction of lines 268, 272, 277 applies
        third(n2, r1, r2, r3) ==
            [text |-> IF r3 THEN SubWordLiteral(n2, "rise of i", "rise of AI") ELSE n2,
             changes |-> (IF r1 THEN << "contry->country" >> ELSE << >>)
                         \o (IF r2 THEN << "export play->export plan" >> ELSE << >>)
                         \o (IF r3 THEN << "rise of I->rise of AI" >> ELSE << >>)]
        second(lowered, n1, r1, r2) ==
            third(IF r2 THEN SubWordLiteral(n1, "export play", "export plan") ELSE n1, r1, r2,
                  /\ \E k \in {"research", "sources", "impact", "technology", "tech", "ai"} :
                        Contains(lowered, k)
                  /\ HasWord(lowered, "rise of i"))
        first(lowered, r1) ==
            second(lowered, IF r1 THEN SubWordLiteral(text, "contry", "country") ELSE text, r1,
                   HasWord(lowered, "export play"))
        normalize(lowered) == first(lowered, Contains(lowered, "contry"))
    IN  normalize(Lower(text))

(***************************************************************************)
(* Command core: src/main.py, _handle_command_core                         *)
(***************************************************************************)
\* a fresh PROJECT_CONVERSATION_STATE entry (_get_state)
FreshState == [f \in {STATE_FIELDS[i] : i \in 1..Len(STATE_FIELDS)} |-> ""]

\* a fresh WORKFLOW_SESSION_STATE entry (_get_workflow_session)
FreshSession ==
    [last_research |-> NoneV, last_files |-> << >>, last_intent |-> NoneV,
     artifacts |-> << >>, pending |-> NoneV,
     context |-> [topic |-> NoneV, country |-> NoneV, domain |-> NoneV]]

\* re.search(r"\b(t\d+)\b", cmd)
HasTaskId(cmd) ==
    \E i \in 1..Len(cmd) :
        LET d == RunLen(cmd, i + 1, DigitSet)
        IN  /\ Ch(cmd, i) = "t"
            /\ (i = 1 \/ Ch(cmd, i - 1) \notin WordSet)
            /\ d >= 1
            /\ (i + 1 + d > Len(cmd) \/ Ch(cmd, i + 1 + d) \notin WordSet)

\* re.search(r"\b(\d+)\b", cmd)
HasNumber(cmd) ==
    \E i \in 1..Len(cmd) :
        LET d == RunLen(cmd, i, DigitSet)
        IN  /\ d >= 1
            /\ (i = 1 \/ Ch(cmd, i - 1) \notin WordSet)
            /\ (i + d > Len(cmd) \/ Ch(cmd, i + d) \notin WordSet)

\* the questions of the last two slots still unset
MissingQuestionsFromEnd(state) ==
    LET lastTwo(qs) == SubSeq(qs, IF Len(qs) > 2 THEN Len(qs) - 1 ELSE 1, Len(qs))
    IN  lastTwo((IF state.company_name = "" THEN << "Which company or team is this for?" >> ELSE << >>)
                \o (IF state.chosen_workflow_area = "" THEN << "Which workflow area should I target?" >> ELSE << >>)
                \o (IF state.goal = "" THEN << "What is your primary goal for this workflow?" >> ELSE << >>)
                \o (IF state.compliance_level = "" THEN << "Any compliance level should I apply?" >> ELSE << >>))

\* lines 604-613: the questions of the slots still unset, at most two
MissingQuestions(state) ==
    Take((IF state.company_name = "" THEN << "Which company or team is this for?" >> ELSE << >>)
         \o (IF state.chosen_workflow_area = "" THEN << "Which workflow area should I target?" >> ELSE << >>)
         \o (IF state.goal = "" THEN << "What is your primary goal for this workflow?" >> ELSE << >>)
         \o (IF state.compliance_level = "" THEN << "Any compliance level should I apply?" >> ELSE << >>),
         2)

\* an export reference test that every command passes
ExportRefAlways(cmd) == TRUE

\* lines 662-667: the backward-reference cue or literal export prefix
ExportRef(cmd) ==
    \/ \E k \in {"that", "this", "it", "research", "from this", "use the research"} : Contains(cmd, k)
    \/ StartsWith(cmd, "export to ")
    \/ StartsWith(cmd, "make a powerpoint")
    \/ StartsWith(cmd, "make powerpoint")

\* The branch of _handle_command_core that handles text: the conditions of its
\* if statements in source order. state is the slot record after
\* _update_state_from_text, wf the session entry, project the active project.
Route(text, files, state, wf, project) ==
    LET branch(cmd, intent) ==
            LET has(k) == Contains(cmd, k)
            IN  IF LooksCutoff(text) THEN "cutoff"
                ELSE IF intent = "open_gmail" THEN "open_gmail"
                ELSE IF intent = "gmail_summary" THEN "gmail_summary"
                ELSE IF has("open gmail setup guide") THEN "gmail_setup"
                ELSE IF cmd = "skip gmail" THEN "gmail_skip"
                ELSE IF has("specify country for research") THEN "specify_country"
                ELSE IF intent = "open_youtube" THEN "open_youtube"
                ELSE IF intent = "open_new_tab" THEN "open_new_tab"
                ELSE IF intent = "research" THEN
                    (IF /\ (has("country") \/ has("our country"))
                        /\ IsNone(wf.context.country)
                        /\ (has("our country") \/ ~has(" in "))
                     THEN "research_country" ELSE "research")
                ELSE IF intent = "research_plan" THEN "research_plan"
                ELSE IF intent = "project_analysis" THEN "project_analysis"
                ELSE IF files # << >> /\ HasImages(files) THEN "vision_chat"
                ELSE IF IsGreeting(cmd) THEN "greeting"
                ELSE IF has("help") \/ has("what can you do") THEN "help"
                ELSE IF has("what are you") \/ has("who are you") THEN "identity"
                ELSE IF /\ \/ NeedsWorkflowClarification(cmd)
                           \/ (has("workflow") /\ (has("create") \/ has("make") \/ has("build")))
                        /\ MissingQuestions(state) # << >> THEN "clarify_workflow"
                ELSE IF has("open") /\ has("youtube") THEN "open_url_youtube"
                ELSE IF has("open") /\ (has("note") \/ has("notepad")) THEN "open_notes"
                ELSE IF has("open") /\ has("word") THEN "open_word"
                ELSE IF has("open") /\ has("excel") THEN "open_excel"
                ELSE IF has("open") /\ (has("url") \/ has("browser") \/ has("google"))
                THEN "open_url_google"
                ELSE IF has("minimize") \/ has("hide windows") THEN "system"
                ELSE IF has("learn") /\ has("youtube") THEN "learning"
                ELSE IF ResolveExportTarget(cmd) # "" /\ ExportRef(cmd) THEN
                    (IF IsNone(wf.last_research) THEN "export_no_research" ELSE "export_research")
                ELSE IF has("create") /\ has("project") THEN "create_project"
                ELSE IF has("plan") /\ (has("generate") \/ has("make") \/ has("create")) THEN
                    (IF IsNone(project) THEN "plan_no_project" ELSE "plan")
                ELSE IF has("status") \/ has("progress") \/ has("list tasks") THEN
                    (IF IsNone(project) THEN "status_no_project" ELSE "status")
                ELSE IF has("doctor") \/ has("diagnose") THEN
                    (IF IsNone(project) THEN "diagnostics_no_project" ELSE "diagnostics")
                ELSE IF has("done") \/ has("finish") \/ has("complete") THEN
                    (IF HasTaskId(cmd) THEN "task_done" ELSE "task_done_no_id")
                ELSE IF has("delay") THEN
                    (IF HasTaskId(cmd) /\ HasNumber(cmd) THEN "task_delay" ELSE "task_delay_usage")
                ELSE IF has("export") \/ has("save") THEN
                    (IF IsNone(project) THEN "export_no_project"
                     ELSE IF has("excel") \/ has("schedule") THEN "export_schedule"
                     ELSE "export_plan")
                ELSE "chat"
        classified(cmd) == branch(cmd, ClassifyIntent(cmd, ~IsNone(project)))
    IN  classified(Lower(Strip(text)))

(***************************************************************************)
(* Collaborators. Each outcome o is one result the collaborator can hand   *)
(* back to the core; the core's code decides what happens with it.         *)
(***************************************************************************)
\* sources of a research payload with n Wikipedia pages (web_research.py 212-219)
RECURSIVE WikiSources(_)
WikiSources(n) ==
    IF n = 0 THEN << >>
    ELSE WikiSources(n - 1)
         \o << [title |-> "Page " \o IntToStr(n),
                url |-> "https://en.wikipedia.org/wiki/" \o IntToStr(n),
                domain |-> "en.wikipedia.org", note |-> "overview"] >>

\* research_topic_with_wikipedia: the payloads it can return for a topic
ResearchOutcomes(topic) ==
    IF Strip(topic) = ""
    THEN {[n |-> 0, reason |-> "empty_query", evidence |-> << >>]}
    ELSE {[n |-> 0, reason |-> "provider_failure", evidence |-> << >>],
          [n |-> 0, reason |-> "unclear_query", evidence |-> << >>],
          [n |-> 1, reason |-> "insufficient_sources", evidence |-> << >>],
          [n |-> 3, reason |-> "ok",
           evidence |-> << [type |-> "image", title |-> "Page 1"] >>]}

\* the summary of a payload: empty exactly when no page was fetched
PayloadSummary(o) == IF o.n > 0 THEN "Overview of the pages." ELSE ""

RECURSIVE RemoveWords(_, _)
RemoveWords(s, words) ==
    IF words = << >> \/ s = "" THEN s
    ELSE RemoveWords(SubWordLiteral(s, Head(words), ""), Tail(words))

\* research_planner._topic_from_request
TopicFromRequest(userText) ==
    LET punct == {" ", ".", ",", "!", "?", ":", ";"}
        \* lines 22-24
        orDefault(topic) == IF topic = "" THEN "Business Operations" ELSE topic
        words(topic) ==
            orDefault(StripSet(CollapseWs(
                RemoveWords(topic, <<"create", "make", "build", "generate", "plan", "project",
                                     "work", "automation", "workflow">>)), punct))
        \* line 21: re.sub(r"^(this|a|an|the)\s+", "", topic, flags=re.IGNORECASE), where
        \* n is the length of the article topic starts with
        drop(topic, lt, n) ==
            words(IF n = 0 THEN topic
                  ELSE SubSeq(topic, n + 1 + RunLen(lt, n + 1, SpaceSet), Len(topic)))
        article(topic, lt) ==
            drop(topic, lt,
                 IF StartsWith(lt, "this") /\ RunLen(lt, 5, SpaceSet) >= 1 THEN 4
                 ELSE IF StartsWith(lt, "a") /\ RunLen(lt, 2, SpaceSet) >= 1 THEN 1
                 ELSE IF StartsWith(lt, "an") /\ RunLen(lt, 3, SpaceSet) >= 1 THEN 2
                 ELSE IF StartsWith(lt, "the") /\ RunLen(lt, 4, SpaceSet) >= 1 THEN 3
                 ELSE 0)
        clean(topic) == article(topic, Lower(topic))
        \* lines 15-19; idx is lowered.rfind(" for "), 1-based, 0 when absent
        cut(raw, idx) ==
            clean(IF idx > 0 THEN StripSet(SubSeq(raw, idx + 5, Len(raw)), punct) ELSE raw)
        last(fors) == IF fors = {} THEN 0 ELSE CHOOSE i \in fors : \A j \in fors : j <= i
        rfind(raw, lowered) ==
            cut(raw, last({i \in 1..(Len(lowered) - 4) : SubSeq(lowered, i, i + 4) = " for "}))
        topicOf(raw) == rfind(raw, Lower(raw))
    IN  topicOf(Strip(userText))

\* engine.engine.create_project: a new project, which becomes the active one
CreateProject(name, nproj) == [id |-> nproj + 1, name |-> name]

\* the task list generate_plan / generate_plan_ai hand back
PlannedTasks == << "Task", "Task", "Task", "Task" >>

\* _task_sections and research_planner._phase_sections
TaskSections(tasks) ==
    LET \* f"{t.get('name', 'Task')} ({t.get('duration_days', 1)} day)" for every task
        items(a, b) == [k \in 1..(b - a + 1) |-> tasks[a + k - 1] \o " (1 day)"]
        chunk(i, a, b) == IF Len(tasks) >= a
                          THEN << [title |-> "Phase " \o IntToStr(i),
                                   items |-> items(a, IF Len(tasks) < b THEN Len(tasks) ELSE b)] >>
                          ELSE << >>
    IN  chunk(1, 1, 3) \o chunk(2, 4, 6) \o chunk(3, 7, Len(tasks))

\* what get_project_diagnosis, get_status, mark_task_done and delay_task of
\* engine.engine hand back
EngineMessages ==
    [diagnosis |-> << "Two tasks are late.", "One task has no owner." >>,
     status |-> "The project is on track.",
     done |-> "Task marked as done.",
     delay |-> "Task delayed."]
\* artifacts._safe_name
SafeName(name, default) ==
    LET orDefault(cleaned) == IF cleaned = "" THEN default ELSE cleaned
        \* line 21: every character outside [a-zA-Z0-9_-] becomes "_"
        kept(s) ==
            Cat([i \in 1..Len(s) |->
                    IF Ch(s, i) \in AlnumSet \cup {"-", "_"} THEN Ch(s, i) ELSE "_"],
                1, Len(s))
    IN  orDefault(StripSet(kept(Strip(name)), {"_"}))

\* export_docx/pptx/xlsx_from_research when the dependency is installed and the
\* file is written: artifacts._file_meta; serial stands for the uuid prefix
FileMeta(researchObj, target, serial) ==
    LET meta(stem) ==
            [id |-> stem, type |-> target, name |-> stem \o "." \o target,
             url |-> "/download/" \o stem]
    IN  meta("file" \o IntToStr(serial) \o "_" \o SafeName(researchObj.topic, "research"))

\* the package MissingExportDependencyError names for an export target
MissingDependency(target) ==
    IF target = "docx" THEN "python-docx"
    ELSE IF target = "pptx" THEN "python-pptx" ELSE "openpyxl"

\* the outcomes of the collaborator a branch of the core calls
OutcomesOf(tag, text) ==
    IF tag = "gmail_summary" THEN {"unavailable", "ok", "setup_required", "error"}
    ELSE IF tag = "research" THEN ResearchOutcomes(ExtractResearchTopic(text))
    ELSE IF tag = "research_plan"
         THEN {o \in ResearchOutcomes("x") : o.reason \in {"provider_failure", "ok"}}
    ELSE IF tag \in {"vision_chat", "chat"} THEN {"Here is what I know.", "Could you tell me more?"}
    ELSE IF tag = "learning" THEN {"no_video_id", "no_transcript", "ok"}
    ELSE IF tag = "export_research" THEN {"ok", "missing_dependency", "error"}
    ELSE IF tag \in {"export_schedule", "export_plan"} THEN {"ok", "missing_dependency"}
    ELSE {"none"}

(***************************************************************************)
(* _handle_command_core, src/main.py 336-797                               *)
(***************************************************************************)
Action(label, command) == [label |-> label, command |-> command]

\* lines 438-442: the actions of the country question
CountryActions(topic) ==
    << Action("Botswana", "research " \o topic \o " in Botswana"),
       Action("United States", "research " \o topic \o " in United States"),
       Action("Specify country", "specify country for research") >>

\* lines 470-474 with one action only
RetryOnce(topic) ==
    << Action("Retry research", "research " \o topic) >>

\* lines 470-474: the actions offered when fewer than three sources were found
RetryActions(topic) ==
    << Action("Retry research", "research " \o topic),
       Action("Continue without sources", "continue without sources for " \o topic),
       Action("Specify country", "research " \o topic \o " in Botswana") >>

\* lines 491-495: the actions offered with a finished research
ExportActions ==
    << Action("Export to Word", "export that to word"),
       Action("Create PowerPoint", "make a powerpoint from this"),
       Action("Export to Excel", "export to excel") >>

\* lines 525-529: the actions offered with a researched plan
PlanFollowUps ==
    << Action("Export Plan", "export plan"),
       Action("Refine Workflow", "refine this workflow with compliance focus"),
       Action("Run Audit First", "doctor") >>

\* lines 423-427: the actions of the new-tab question
NewTabActions ==
    << Action("Open Gmail", "open gmail"),
       Action("Open YouTube", "open youtube"),
       Action("Open Google", "open google") >>

\* line 710: the action offered with a created project
CreatedActions == << Action("Generate Plan", "generate plan") >>

\* lines 725-728: the actions offered with a generated plan
PlanActions == << Action("Show Status", "status"), Action("Export Plan", "export plan") >>

\* what one run of the core leaves behind: the keyword arguments of the
\* make_response call it returns through (or that it raised), the slots and the
\* session entry it worked on, the active project, and the collaborators it called
CoreResult(raised, given, state, wf, project, nproj, calls) ==
    [raised |-> raised, resp |-> given, state |-> state, wf |-> wf,
     project |-> project, nproj |-> nproj, calls |-> calls]

\* lines 83-101 only: the slots as line 105 leaves them when it raises
UpdateStateUntilGoal(state, text) ==
    LET until(full) ==
            [state EXCEPT !.company_name = full.company_name, !.domain = full.domain,
                          !.chosen_workflow_area = full.chosen_workflow_area]
    IN  until(UpdateStateFromText(state, text))

\* _to_research_object
ToResearchObject(topic, o) ==
    [topic |-> topic, summary |-> PayloadSummary(o), sources |-> WikiSources(o.n)]

\* lines 432-499: the research branch once the country question is settled
ResearchBranch(text, cmd, state, wf, project, nproj, o) ==
    LET \* lines 451-462
        stored(researchObj) ==
            IF Len(researchObj.sources) > 0 \/ Strip(researchObj.summary) # ""
            THEN [wf EXCEPT !.last_research = Some(researchObj), !.last_intent = Some("research")]
            ELSE wf
        context(topic, wf1) ==
            IF Contains(Lower(topic), "botswana")
            THEN [wf1 EXCEPT !.context.topic = Some(topic), !.context.country = Some("Botswana")]
            ELSE [wf1 EXCEPT !.context.topic = Some(topic)]
        \* lines 464-499
        given(topic, needsEvidence, sources) ==
            IF Len(sources) < 3
            THEN [summary |-> "I could not gather enough reliable sources yet.",
                  bullets |-> << IF o.reason = "provider_failure"
                                 THEN "Research provider failed or timed out."
                                 ELSE "The query is too broad or unclear.",
                                 "I need one detail to improve source quality." >>,
                  actions |-> RetryActions(topic),
                  intent |-> "research",
                  say_text |-> "I need one more detail before I continue research.",
                  question |-> "Which country or sub-topic should I focus on",
                  debug |-> [research_reason |-> Some(o.reason),
                             source_count |-> Some(Len(sources))]]
            ELSE [summary |-> "I researched " \o topic \o ".",
                  bullets |-> << "I found " \o IntToStr(Len(sources)) \o " sources.",
                                 "I stored this research for follow-up exports." >>
                              \o (IF needsEvidence /\ o.evidence = << >>
                                  THEN << "No reliable visuals found." >> ELSE << >>),
                  sources |-> sources,
                  evidence |-> o.evidence,
                  actions |-> ExportActions,
                  intent |-> "research",
                  say_text |-> "Research is ready.",
                  debug |-> [source_count |-> Some(Len(sources)),
                             needs_evidence |-> Some(needsEvidence)]]
        researched(topic, researchObj) ==
            CoreResult(FALSE, given(topic, Contains(cmd, "evidence"), researchObj.sources), state,
                       context(topic, stored(researchObj)), project, nproj,
                       << "research_topic_with_wikipedia" >>)
        branch(topic) == researched(topic, ToResearchObject(topic, o))
    IN  branch(ExtractResearchTopic(text))

\* lines 501-537 with research_planner.create_project_plan_from_web_request
ResearchPlanBranch(text, cmd, state, wf, project, nproj, o) ==
    LET given(created, tasks, sources, images) ==
            [summary |-> "Created \"" \o created.name \o "\" with a researched workflow plan.",
             bullets |-> << "Generated " \o IntToStr(Len(tasks)) \o " tasks.",
                            "Attached " \o IntToStr(images) \o " evidence image(s)." >>,
             sections |-> TaskSections(tasks),
             sources |-> sources,
             evidence |-> o.evidence,
             actions |-> PlanFollowUps,
             intent |-> "research_plan",
             say_text |-> "Your researched workflow is ready with " \o IntToStr(Len(tasks))
                          \o (IF images = 0 THEN " tasks." ELSE " tasks and visual evidence."),
             question |-> "Do you want me to export this plan or refine it first"]
        planned(topic, created, sources) ==
            CoreResult(FALSE, given(created, PlannedTasks, sources, Len(o.evidence)), state,
                       [wf EXCEPT !.last_research = Some([topic |-> topic,
                                                          summary |-> PayloadSummary(o),
                                                          sources |-> sources]),
                                  !.last_intent = Some("research_plan")],
                       Some(created), nproj + 1,
                       << "research_topic_with_wikipedia", "create_project", "generate_plan" >>)
        branch(topic) ==
            planned(topic, CreateProject(Title(topic) \o " Workflow Plan", nproj), WikiSources(o.n))
    IN  branch(TopicFromRequest(
            IF state.compliance_level # "" /\ ~Contains(cmd, state.compliance_level)
            THEN text \o " with " \o state.compliance_level \o " compliance" ELSE text))

\* lines 364-367 and 386-389: the actions offered when Gmail is not set up
SetupActions == << Action("Setup Gmail", "open gmail setup guide"), Action("Skip Gmail", "skip gmail") >>

\* lines 351-430: Gmail, setup, country and new-tab branches
MailBranch(tag, state, wf, project, nproj, o) ==
    LET done(given, calls) == CoreResult(FALSE, given, state, wf, project, nproj, calls)
    IN  IF tag = "open_gmail"
        THEN done([summary |-> "Opened Gmail in your browser.", intent |-> "open_gmail",
                   say_text |-> "Opened Gmail."],
                  << "os_open_url" >>)
        ELSE IF tag = "gmail_summary" /\ o = "unavailable"
        THEN done([summary |-> "I need Gmail access first.",
                   bullets |-> << "Install Gmail dependencies and add OAuth credentials.",
                                  "Open the local setup guide for exact steps." >>,
                   actions |-> SetupActions, intent |-> "gmail_summary",
                   say_text |-> "I need Gmail access first."],
                  << >>)
        ELSE IF tag = "gmail_summary" /\ o = "ok"
        THEN done([summary |-> "I summarized your latest email.",
                   bullets |-> << "From: Unknown", "Subject: No subject", "It is a short note." >>,
                   intent |-> "gmail_summary", say_text |-> "I summarized your latest email."],
                  << "gmail_get_last_email", "gmail_summarize_email" >>)
        ELSE IF tag = "gmail_summary" /\ o = "setup_required"
        THEN done([summary |-> "I need Gmail access first.",
                   bullets |-> << "Put credentials.json in the project root.",
                                  "Run Gmail setup once, then retry.",
                                  "Guide: /gmail_setup.html" >>,
                   actions |-> SetupActions, intent |-> "gmail_summary",
                   say_text |-> "I need Gmail access first."],
                  << "gmail_get_last_email" >>)
        ELSE IF tag = "gmail_summary"
        THEN done([summary |-> "I could not read Gmail right now.",
                   bullets |-> << "Please retry in a moment." >>,
                   intent |-> "gmail_summary", say_text |-> "I could not read Gmail right now."],
                  << "gmail_get_last_email" >>)
        ELSE IF tag = "gmail_setup"
        THEN done([summary |-> "Opened Gmail setup guide.", intent |-> "gmail_setup"],
                  << "os_open_url" >>)
        ELSE IF tag = "gmail_skip"
        THEN done([summary |-> "Okay, Gmail skipped.", intent |-> "gmail_skip",
                   question |-> "What should I do next"],
                  << >>)
        ELSE IF tag = "specify_country"
        THEN done([summary |-> "Tell me the country and I will rerun research.",
                   intent |-> "research", question |-> "Which country should I use"],
                  << >>)
        ELSE IF tag = "open_youtube"
        THEN done([summary |-> "Opened YouTube in your browser.", intent |-> "open_youtube",
                   say_text |-> "Opened YouTube."],
                  << "os_open_url" >>)
        ELSE \* open_new_tab
             done([summary |-> "I can open the site in a new window. Which site should I open?",
                   actions |-> NewTabActions,
                   intent |-> "open_new_tab", say_text |-> "Which site should I open?"],
                  << >>)

\* lines 434-447: the country question
CountryQuestion(text, state, wf, project, nproj) ==
    CoreResult(FALSE,
        [summary |-> "I can run that research, but I need the country first.",
         actions |-> CountryActions(ExtractResearchTopic(text)),
         intent |-> "research",
         say_text |-> "Which country should I use for this research?",
         question |-> "Which country should I focus on",
         debug |-> [source_count |-> Some(0), research_reason |-> Some("country_missing")]],
        state, wf, project, nproj, << >>)

\* lines 615-625: the quick replies of the clarification
QuickActions(domain) ==
    IF domain = "health"
    THEN << Action("Claims Workflow",
                   "build claims workflow for a health company with hipaa compliance"),
            Action("Onboarding Workflow", "build onboarding workflow for a health company") >>
    ELSE << Action("Operations Workflow", "build operations workflow for a " \o domain \o " company"),
            Action("Compliance Workflow", "build compliance workflow for a " \o domain \o " company") >>

\* lines 539-632: analysis, vision, greeting, help, identity, clarification
TalkBranch(tag, state, wf, project, nproj, o) ==
    LET done(given, calls) == CoreResult(FALSE, given, state, wf, project, nproj, calls)
    IN  IF tag = "project_analysis"
        THEN done([summary |-> "I analyzed project risk and status.",
                   bullets |-> Take(EngineMessages.diagnosis, 5), intent |-> "project_analysis",
                   say_text |-> "Project analysis is ready."],
                  << "get_project_diagnosis" >>)
        ELSE IF tag = "vision_chat"
        THEN done([summary |-> o, intent |-> "vision_chat",
                   say_text |-> "I reviewed the images and prepared the answer.",
                   question |-> "Do you want a short summary or a task list"],
                  << "chat_with_ai" >>)
        ELSE IF tag = "greeting"
        THEN done([summary |-> "Hi. I can help you plan workflows, research options, and generate task plans.",
                   actions |-> << Action("Create Workflow", "make a project workflow for a health company"),
                                  Action("Web Research Plan",
                                         "create a work plan for a health company with web research") >>,
                   intent |-> "greeting", question |-> "What should I help you build first"],
                  << >>)
        ELSE IF tag = "help"
        THEN done([summary |-> "I can create plans, run web research, and build task workflows.",
                   bullets |-> << "Planning: create project, generate plan, check status.",
                                  "Research: build plans using web sources and visual evidence.",
                                  "System actions: open notes, word, excel, youtube." >>,
                   actions |-> << Action("Plan Workflow", "make a project workflow for a health company"),
                                  Action("Research + Plan",
                                         "create a work plan for a health company with web research") >>,
                   intent |-> "help", question |-> "Which option do you want to run"],
                  << >>)
        ELSE IF tag = "identity"
        THEN done([summary |-> "I am your planning assistant for workflows, research, and execution steps.",
                   bullets |-> << "I create project workflows with phases and tasks.",
                                  "I research sources and attach evidence when useful.",
                                  "I give actionable next options you can run right away." >>,
                   actions |-> << Action("Create Workflow", "make a project workflow for a health company"),
                                  Action("Research Plan",
                                         "create a work plan for a health company with web research") >>,
                   intent |-> "identity",
                   question |-> "Do you want a workflow draft or a researched plan"],
                  << >>)
        ELSE \* clarify_workflow
             done([summary |-> "I can build that workflow, and I need a couple details first.",
                   bullets |-> MissingQuestions(state),
                   actions |-> QuickActions(IF state.domain # "" THEN state.domain ELSE "health"),
                   intent |-> "clarify_workflow",
                   question |-> "Which option should I use"],
                  << >>)

RECURSIVE ProjectNameFrom(_, _, _)
\* lines 699-703: text.lower().replace(prefix, "", 1).strip() for the first prefix
\* the command contains
ProjectNameFrom(prefixes, text, cmd) ==
    LET cut(s, prefix, i) ==
            Strip(IF i = 0 THEN s ELSE SubSeq(s, 1, i - 1) \o SubSeq(s, i + Len(prefix), Len(s)))
        replaced(s, prefix) == cut(s, prefix, Find(s, prefix))
    IN  IF prefixes = << >> THEN cmd
        ELSE IF Contains(cmd, Head(prefixes)) THEN replaced(Lower(text), Head(prefixes))
        ELSE ProjectNameFrom(Tail(prefixes), text, cmd)

\* lines 634-659: desktop actions and learning from a video
DeskBranch(tag, state, wf, project, nproj, o) ==
    LET done(given, calls) == CoreResult(FALSE, given, state, wf, project, nproj, calls)
        plain(summary, intent) == [summary |-> summary, intent |-> intent]
    IN  IF tag = "open_url_youtube"
        THEN done(plain("Opened URL: https://www.youtube.com", "open_url"), << "open_url" >>)
        ELSE IF tag = "open_notes"
        THEN done(plain("Opened Notes (Notepad).", "open_app"), << "open_notes" >>)
        ELSE IF tag = "open_word"
        THEN done(plain("Opened Microsoft Word.", "open_app"), << "open_word" >>)
        ELSE IF tag = "open_excel"
        THEN done(plain("Opened Microsoft Excel.", "open_app"), << "open_excel" >>)
        ELSE IF tag = "open_url_google"
        THEN done(plain("Opened URL: https://www.google.com", "open_url"), << "open_url" >>)
        ELSE IF tag = "system"
        THEN done(plain("Minimized all windows.", "system"), << "minimize_all_windows" >>)
        ELSE IF o = "no_video_id"
        THEN done(plain("I couldn't find a valid YouTube URL/video ID. Try: learn from youtube https://www.youtube.com/watch?v=...",
                        "learning"),
                  << "learn_from_youtube" >>)
        ELSE IF o = "no_transcript"
        THEN done(plain("I couldn't extract captions from this video. It may have no public transcript.",
                        "learning"),
                  << "learn_from_youtube" >>)
        ELSE done([summary |-> "I learned from YouTube video.",
                   bullets |-> << "I extracted key lessons and action steps.",
                                  "I can convert this into a project workflow next." >>,
                   intent |-> "youtube_learning",
                   say_text |-> "I finished learning from the video and prepared the key takeaways.",
                   question |-> "Do you want this turned into a workflow"],
                  << "learn_from_youtube" >>)

\* an export branch without the guard of lines 669-671
ExportUnguarded(tag, cmd, state, wf, project, nproj, o) ==
    CoreResult(FALSE, [summary |-> "Export is ready.", intent |-> "export"], state,
               [wf EXCEPT !.artifacts = @ \o << [id |-> "file", name |-> "file",
                                                 type |-> ResolveExportTarget(cmd)] >>],
               project, nproj, << "export_" \o ResolveExportTarget(cmd) \o "_from_research" >>)

\* lines 661-696: export of the stored research
ExportBranch(tag, cmd, state, wf, project, nproj, o) ==
    LET \* lines 678-686: missing is the package the exporter's error names
        unavailable(missing) ==
            [summary |-> "Export is not available until I install " \o missing \o ".",
             bullets |-> << "Run: pip install " \o missing, "Then retry your export command." >>,
             intent |-> "export",
             say_text |-> "Export is not available until I install " \o missing \o "."]
        \* lines 687-696
        exported(target, fmeta) ==
            CoreResult(FALSE,
                [summary |-> Upper(fmeta.type) \o " export is ready.",
                 bullets |-> << "Created " \o fmeta.name \o "." >>,
                 files |-> << fmeta >>,
                 intent |-> "export_" \o target,
                 say_text |-> "Your export is ready for download."],
                state,
                [wf EXCEPT !.last_files = << fmeta >>,
                           !.artifacts = @ \o << [id |-> fmeta.id, name |-> fmeta.name,
                                                  type |-> fmeta.type] >>,
                           !.last_intent = Some("export_" \o target)],
                project, nproj, << "export_" \o target \o "_from_research" >>)
        export(target) ==
            IF tag = "export_no_research"
            THEN CoreResult(FALSE, [summary |-> "What should I research first?", intent |-> "export"],
                            state, wf, project, nproj, << >>)
            ELSE IF o = "error"
            THEN CoreResult(TRUE, NoneV, state, wf, project, nproj,
                            << "export_" \o target \o "_from_research" >>)
            ELSE IF o = "missing_dependency"
            THEN CoreResult(FALSE, unavailable(MissingDependency(target)), state, wf, project, nproj,
                            << "export_" \o target \o "_from_research" >>)
            ELSE exported(target,
                          FileMeta(Val(wf.last_research), target, Len(wf.artifacts) + 1))
    IN  export(ResolveExportTarget(cmd))

\* the path documents.exporter reports for a written file
ExportedPath(kind) == "exports/" \o kind

\* lines 698-793: project, plan, status, diagnostics, task updates, plan export
ProjectBranch(tag, text, cmd, state, wf, project, nproj, o) ==
    LET done(given, calls) == CoreResult(FALSE, given, state, wf, project, nproj, calls)
        plain(summary, intent) == [summary |-> summary, intent |-> intent]
        \* lines 774-779 and 784-789
        unavailable(missing) ==
            [summary |-> "Export is not available until I install " \o missing \o ".",
             bullets |-> << "Run: pip install " \o missing >>,
             intent |-> "export",
             say_text |-> "Export is not available until I install " \o missing \o "."]
        saved(summary, path) ==
            [summary |-> summary, bullets |-> << "Saved to: " \o path >>, intent |-> "export"]
        \* lines 698-714
        create(name, created) ==
            CoreResult(FALSE,
                [summary |-> "Created project \"" \o created.name \o "\".",
                 actions |-> CreatedActions,
                 intent |-> "create_project",
                 say_text |-> "Project created.",
                 question |-> "Do you want me to generate the first workflow now"],
                IF state.company_name = "" THEN [state EXCEPT !.company_name = name] ELSE state,
                wf, Some(created), nproj + 1, << "create_project" >>)
        named(name) == create(name, CreateProject(name, nproj))
        orUntitled(name) == named(IF name = "" THEN "Untitled Project" ELSE name)
        \* lines 716-731
        plan(tasks) ==
            done([summary |-> "Generated " \o IntToStr(Len(tasks)) \o " tasks for \""
                              \o Val(project).name \o "\".",
                  sections |-> TaskSections(tasks),
                  actions |-> PlanActions,
                  intent |-> "plan",
                  say_text |-> "I generated " \o IntToStr(Len(tasks)) \o " tasks.",
                  question |-> "Do you want timeline status next"],
                 << "generate_plan", "save_tasks" >>)
    IN  IF tag = "create_project"
        THEN orUntitled(Title(ProjectNameFrom(
                            << "create project", "new project", "create a project" >>, text, cmd)))
        ELSE IF tag = "plan_no_project"
        THEN done([summary |-> "No active project found.",
                   bullets |-> << "Create a project first." >>, intent |-> "plan"],
                  << >>)
        ELSE IF tag = "plan" THEN plan(PlannedTasks)
        ELSE IF tag = "status_no_project" THEN done(plain("No active project.", "status"), << >>)
        ELSE IF tag = "status"
        THEN done([summary |-> EngineMessages.status, intent |-> "status",
                   question |-> "Do you want a detailed task breakdown"],
                  << "get_status" >>)
        ELSE IF tag = "diagnostics_no_project"
        THEN done(plain("No active project.", "diagnostics"), << >>)
        ELSE IF tag = "diagnostics"
        THEN done([summary |-> "I reviewed project risk and health status.",
                   bullets |-> Take(EngineMessages.diagnosis, 5), intent |-> "diagnostics",
                   question |-> "Do you want mitigation actions for the top risks"],
                  << "get_project_diagnosis" >>)
        ELSE IF tag = "task_done_no_id"
        THEN done(plain("Please specify a task ID, for example: mark t1 done.", "task_update"),
                  << >>)
        ELSE IF tag = "task_done"
        THEN done(plain(EngineMessages.done, "task_update"), << "mark_task_done" >>)
        ELSE IF tag = "task_delay_usage"
        THEN done(plain("Use: delay task t1 by 2 days.", "task_update"), << >>)
        ELSE IF tag = "task_delay"
        THEN done(plain(EngineMessages.delay, "task_update"), << "delay_task" >>)
        ELSE IF tag = "export_no_project" THEN done(plain("No active project.", "export"), << >>)
        ELSE IF tag = "export_schedule"
        THEN done(IF o = "missing_dependency" THEN unavailable("openpyxl")
                  ELSE saved("Schedule exported successfully.", ExportedPath("schedule.xlsx")),
                  << "get_status", "export_schedule_to_excel" >>)
        ELSE \* export_plan
             done(IF o = "missing_dependency" THEN unavailable("python-docx")
                  ELSE saved("Plan exported successfully.", ExportedPath("plan.docx")),
                  << "export_plan_to_word" >>)

\* _handle_command_core(text, files) on the slots, the session entry and the
\* active project the turn started with; o is the collaborator's outcome
HandleCommandCore(text, files, state0, wf0, project, nproj, o) ==
    LET \* the return of the branch taken: make_response on its keyword arguments
        returned(b) == IF b.raised THEN b ELSE [b EXCEPT !.resp = MakeResponse(b.resp)]
        branch(tag, cmd, state, wf) ==
            IF tag = "cutoff"
            THEN CoreResult(FALSE, [summary |-> "Go on - what should I do?", intent |-> "cutoff"],
                            state, wf, project, nproj, << >>)
            ELSE IF tag \in {"open_gmail", "gmail_summary", "gmail_setup", "gmail_skip",
                             "specify_country", "open_youtube", "open_new_tab"}
            THEN MailBranch(tag, state, wf, project, nproj, o)
            ELSE IF tag = "research_country" THEN CountryQuestion(text, state, wf, project, nproj)
            ELSE IF tag = "research" THEN ResearchBranch(text, cmd, state, wf, project, nproj, o)
            ELSE IF tag = "research_plan"
            THEN ResearchPlanBranch(text, cmd, state, wf, project, nproj, o)
            ELSE IF tag \in {"project_analysis", "vision_chat", "greeting", "help", "identity",
                             "clarify_workflow"}
            THEN TalkBranch(tag, state, wf, project, nproj, o)
            ELSE IF tag \in {"open_url_youtube", "open_notes", "open_word", "open_excel",
                             "open_url_google", "system", "learning"}
            THEN DeskBranch(tag, state, wf, project, nproj, o)
            ELSE IF tag \in {"export_no_research", "export_research"}
            THEN ExportBranch(tag, cmd, state, wf, project, nproj, o)
            ELSE IF tag = "chat"
            THEN CoreResult(FALSE,
                    [summary |-> o, intent |-> "chat",
                     question |-> "Do you want me to turn this into a task plan"],
                    state, wf, project, nproj, << "chat_with_ai" >>)
            ELSE ProjectBranch(tag, text, cmd, state, wf, project, nproj, o)
        routed(cmd, state, wf) ==
            returned(branch(Route(text, files, state, wf, project), cmd, state, wf))
        \* lines 340-343
        session(cmd, state) ==
            routed(cmd, state,
                   IF state.domain # "" THEN [wf0 EXCEPT !.context.domain = Some(state.domain)]
                   ELSE wf0)
    IN  IF GoalSplitRaises(state0, text)
        THEN CoreResult(TRUE, NoneV, UpdateStateUntilGoal(state0, text), wf0, project, nproj, << >>)
        ELSE session(Lower(Strip(text)), UpdateStateFromText(state0, text))

(***************************************************************************)
(* handle_command, src/main.py 800-849                                     *)
(***************************************************************************)
\* a handler that leaves the answered pending action in place
KeepPending(wf) == wf

\* wf_session["pending"] = None (lines 809, 820, 827)
ClearPending(wf) == [wf EXCEPT !.pending = NoneV]

\* lines 327-330: the debug updates merged into meta.debug
WithDebug(resp, updates) ==
    IF IsNone(updates) THEN resp ELSE [resp EXCEPT !.meta.debug = DictUpdate(@, Val(updates))]

\* a resolver without the pending_none reply of lines 835-842
ResolveWithoutPendingNone(text, wf) ==
    LET settle(normalized, cmd) ==
            IF ~IsNone(wf.pending) /\ IsNegative(cmd) THEN [path |-> "cancel", command |-> NoneV]
            ELSE IF ~IsNone(wf.pending) /\ ~IsNone(MatchPendingOption(cmd, Val(wf.pending)))
            THEN [path |-> "option", command |-> MatchPendingOption(cmd, Val(wf.pending))]
            ELSE IF /\ ~IsNone(wf.pending)
                    /\ IsAffirmative(cmd)
                    /\ Strip(Val(wf.pending).default_command) # ""
            THEN [path |-> "affirmative",
                  command |-> Some(Strip(Val(wf.pending).default_command))]
            ELSE [path |-> "direct", command |-> Some(normalized)]
        lowered(normalized) == settle(normalized, Lower(Strip(normalized)))
    IN  lowered(NormalizeSttText(text).text)

\* lines 807-844: how the turn is settled and the command handed to the core
\* (path "cancel" and "pending_none" hand nothing to the core)
Resolve(text, wf) ==
    LET settle(normalized, cmd) ==
            IF ~IsNone(wf.pending) /\ IsNegative(cmd) THEN [path |-> "cancel", command |-> NoneV]
            ELSE IF ~IsNone(wf.pending) /\ ~IsNone(MatchPendingOption(cmd, Val(wf.pending)))
            THEN [path |-> "option", command |-> MatchPendingOption(cmd, Val(wf.pending))]
            ELSE IF /\ ~IsNone(wf.pending)
                    /\ IsAffirmative(cmd)
                    /\ Strip(Val(wf.pending).default_command) # ""
            THEN [path |-> "affirmative",
                  command |-> Some(Strip(Val(wf.pending).default_command))]
            ELSE IF IsAffirmative(cmd) THEN [path |-> "pending_none", command |-> NoneV]
            ELSE [path |-> "direct", command |-> Some(normalized)]
        lowered(normalized) == settle(normalized, Lower(Strip(normalized)))
    IN  lowered(NormalizeSttText(text).text)

\* the debug updates of the turn (lines 816, 822, 832, 842, 845-849)
DebugUpdates(path, command, norm) ==
    IF path \in {"option", "affirmative"}
    THEN Some([resolved_from_pending |-> command, stt_corrections |-> Some(norm.changes)])
    ELSE IF path = "direct" /\ norm.changes # << >>
    THEN Some([stt_corrections |-> Some(norm.changes), normalized_text |-> Some(norm.text)])
    ELSE IF path = "direct" THEN NoneV
    ELSE IF norm.changes # << >> THEN Some([stt_corrections |-> Some(norm.changes)])
    ELSE NoneV

\* a finalizer that keeps a pending action the session already holds
FinalizeKeepingOld(wf, resp) ==
    IF IsNone(wf.pending) THEN [wf EXCEPT !.pending = PendingFromResponse(resp)] ELSE wf

\* _finalize_response: the session entry with the pending action of resp
Finalize(wf, resp) == [wf EXCEPT !.pending = PendingFromResponse(resp)]

\* One turn of handle_command(text, files) from slots state0, session entry wf0
\* and the active project; o is the outcome of the collaborator the core calls.
\* The record holds what the turn returned and what it left in the store.
Turn(text, files, state0, wf0, project, nproj, o) ==
    LET \* lines 810-815 and 836-841: the reply handle_command builds itself
        own(path) ==
            MakeResponse(
                IF path = "cancel"
                THEN [summary |-> "Okay, canceled.", intent |-> "pending_cancel",
                      say_text |-> "Okay, canceled.", question |-> "What should I do next"]
                ELSE [summary |-> "I do not have a pending action yet.",
                      intent |-> "pending_none",
                      say_text |-> "I do not have a pending action yet.",
                      question |-> "What should I do"])
        \* what the turn returned (resp) and the session entry it worked on
        outcome(r, wfAtCall, usesCore, core, resp, wfWorked) ==
            [text |-> text, files |-> files, path |-> r.path, command |-> r.command,
             outcome |-> o,
             raised |-> usesCore /\ core.raised,
             resp |-> IF usesCore /\ core.raised THEN NoneV ELSE Some(resp),
             coreCalls |->
                IF usesCore THEN << [command |-> Val(r.command), pending |-> wfAtCall.pending] >>
                ELSE << >>,
             calls |-> IF usesCore THEN core.calls ELSE << >>,
             before |-> [state |-> state0, wf |-> wf0, project |-> project],
             state |-> IF usesCore THEN core.state ELSE state0,
             wf |-> IF usesCore /\ core.raised THEN wfWorked ELSE Finalize(wfWorked, resp),
             project |-> IF usesCore THEN core.project ELSE project,
             nproj |-> IF usesCore THEN core.nproj ELSE nproj]
        \* core is what _handle_command_core left behind, when it was called
        answered(r, norm, wfAtCall, usesCore, core) ==
            outcome(r, wfAtCall, usesCore, core,
                    WithDebug(IF usesCore THEN core.resp ELSE own(r.path),
                              DebugUpdates(r.path, r.command, norm)),
                    IF usesCore THEN core.wf
                    ELSE IF r.path = "cancel" THEN ClearPending(wf0) ELSE wf0)
        dispatched(r, norm, wfAtCall) ==
            answered(r, norm, wfAtCall, ~IsNone(r.command),
                     HandleCommandCore(Val(r.command), files, state0, wfAtCall, project, nproj, o))
        resolved(r, norm) ==
            dispatched(r, norm,
                       IF r.path \in {"option", "affirmative"} THEN ClearPending(wf0) ELSE wf0)
    IN  resolved(Resolve(text, wf0), NormalizeSttText(text))

\* the collaborator outcomes possible in the turn
TurnOutcomes(text, files, state0, wf0, project) ==
    LET outcomes(command, wf1) ==
            IF GoalSplitRaises(state0, command) THEN {"none"}
            ELSE OutcomesOf(Route(command, files, UpdateStateFromText(state0, command), wf1,
                                  project),
                            command)
        resolved(r) ==
            IF IsNone(r.command) THEN {"none"}
            ELSE outcomes(Val(r.command), IF r.path = "direct" THEN wf0 ELSE ClearPending(wf0))
    IN  resolved(Resolve(text, wf0))

(***************************************************************************)
(* The conversation: the caller's loop of src/main.py 860-885 around       *)
(* handle_command, on the store entry of the active key                    *)
(***************************************************************************)
\* how many utterances a run hands to handle_command
MaxTurns == 3
\* how many projects the engine may hold
MaxProjects == 1
\* how many exported files a session may record
MaxArtifacts == 1
\* the longest command handed to the core
MaxCommandLen == 64

\* what the user may say in a turn
Utterances ==
    { [text |-> t, files |-> << >>] :
        t \in {"hello", "hi", "yes", "do it", "no", "option 2",
               "research country risk", "research .",
               "export to excel", "create project alpha", "save schedule to excel",
               "build a workflow with web research"} }
    \cup { [text |-> "what is this", files |-> << [type |-> "image/png", name |-> "site.png"] >>] }

VARIABLES
    state,      \* PROJECT_CONVERSATION_STATE[_state_key()]
    wf,         \* WORKFLOW_SESSION_STATE[_state_key()]
    project,    \* the active project of the engine, if any
    nproj,      \* the number of projects the engine holds
    pc,         \* where the caller's loop stands: "input" or "print"
    result,     \* the turn whose result the caller holds
    turns,      \* how many utterances handle_command has been given
    reply,      \* cmd of _match_pending_option(cmd, pending)
    selected,   \* what _match_pending_option(cmd, pending) returned
    textCache,  \* _TEXT_CACHE of engine.ai_chat: cache key -> cached reply
    apiKeys,    \* which of GROQ_API_KEY and GEMINI_API_KEY are set
    playing     \* the text _tts_engine is speaking, if any

vars == << state, wf, project, nproj, pc, result, turns, reply, selected,
          textCache, apiKeys, playing >>

\* the module state of engine.ai_chat and voice.voice_io
aside == << textCache, apiKeys, playing >>

\* _TEXT_CACHE = {} and no API key in the environment; nothing is being spoken
AsideIdle ==
    /\ textCache = {}
    /\ apiKeys = [groq |-> FALSE, gemini |-> FALSE]
    /\ playing = NoneV

NoTurn == NoneV

Init ==
    /\ AsideIdle
    /\ state = FreshState
    /\ wf = FreshSession
    /\ project = NoneV
    /\ nproj = 0
    /\ pc = "input"
    /\ result = NoTurn
    /\ turns = 0
    /\ reply = ""
    /\ selected = NoneV

\* result = handle_command(text): lines 873 and 880
HandleCommand(u, o) ==
    /\ pc = "input"
    /\ turns < MaxTurns
    /\ turns' = turns + 1
    /\ result' = Some(Turn(u.text, u.files, state, wf, project, nproj, o))
    /\ Val(result').nproj <= MaxProjects
    /\ Len(Val(result').wf.artifacts) <= MaxArtifacts
    /\ \A k \in 1..Len(Val(result').coreCalls) :
          Len(Val(result').coreCalls[k].command) <= MaxCommandLen
    /\ state' = IF Val(result').project # project THEN FreshState ELSE Val(result').state
    /\ wf' = IF Val(result').project # project THEN FreshSession ELSE Val(result').wf
    /\ project' = Val(result').project
    /\ nproj' = Val(result').nproj
    /\ pc' = "print"
    /\ UNCHANGED << reply, selected >>
    /\ UNCHANGED aside

\* print(result.get("show_text", "")) or print(f"Error: {e}"): lines 874-885
PrintResult ==
    /\ pc = "print"
    /\ pc' = "input"
    /\ result' = NoTurn
    /\ UNCHANGED << state, wf, project, nproj, turns, reply, selected >>
    /\ UNCHANGED aside

\* str(e) of line 885: the IndexError of line 105, or what the exporter raised
ExceptionText(t) ==
    IF GoalSplitRaises(t.before.state, t.coreCalls[1].command)
    THEN "list index out of range"
    ELSE "[Errno 13] Permission denied: '" \o ExportedPath("research") \o "'"

\* what the loop prints for the turn it holds: lines 874 and 881, or line 885
\* when handle_command raised
Printed(t) ==
    IF t.raised THEN "Error: " \o ExceptionText(t) ELSE Val(t.resp).show_text

\* server.py 138-147: the reply of the HTTP endpoint when the turn raised
ErrorContract ==
    [say_text |-> "I hit an internal error while processing that request.",
     show_text |-> "I hit an internal error while processing that request. Please retry.",
     evidence |-> << >>, files |-> << >>, actions |-> << >>,
     meta |-> [intent |-> "error", verbosity |-> "quick", sources |-> << >>, debug |-> NoDebug]]

Next ==
    \/ \E u \in Utterances :
          \E o \in TurnOutcomes(u.text, u.files, state, wf, project) : HandleCommand(u, o)
    \/ PrintResult

Spec == Init /\ [][Next]_vars

(***************************************************************************)
(* _match_pending_option on its own: a session that holds a pending action *)
(* offered by the command core, and a reply to it                          *)
(***************************************************************************)
\* the action lists the command core offers (lines 364-727)
OfferedActions ==
    {CountryActions(t) : t \in {"solar", "country risk"}}
    \cup {RetryActions(t) : t \in {"solar", "country risk"}}
    \cup {ExportActions, PlanFollowUps, NewTabActions, SetupActions, CreatedActions, PlanActions,
          QuickActions("health"), QuickActions("finance")}

\* what the user may answer, as handle_command hands it over (trimmed, lower case)
Replies ==
    {"option 0", "option 1", "option 2", "option 3", "option 4", "option2",
     "pick option 2 please", "option 2 botswana", "options",
     "botswana", "united states", "specify country", "country", "us",
     "export to word", "create powerpoint", "export to excel", "excel",
     "export plan", "refine workflow", "run audit first", "doctor", "doctor now",
     "skip gmail", "open google", "generate plan", "status", "status please",
     "claims workflow", "yes", "do it", "go ahead", "later", "", "  "}

InitMatch ==
    /\ AsideIdle
    /\ state = FreshState
    /\ wf \in {[FreshSession EXCEPT !.pending =
                    PendingFromResponse(MakeResponse([summary |-> "Choose one.", actions |-> a]))] :
                a \in OfferedActions}
    /\ project = NoneV
    /\ nproj = 0
    /\ pc = "input"
    /\ result = NoTurn
    /\ turns = 0
    /\ reply \in Replies
    /\ selected = NoneV

\* selected = _match_pending_option(cmd, pending): line 818
ApplyMatch ==
    /\ pc = "input"
    /\ selected' = MatchPendingOption(reply, Val(wf.pending))
    /\ pc' = "print"
    /\ UNCHANGED << state, wf, project, nproj, result, turns, reply >>
    /\ UNCHANGED aside

NextMatch == ApplyMatch

SpecMatch == InitMatch /\ [][NextMatch]_vars

(***************************************************************************)
(* _classify_intent and _normalize_stt_text on their own: a text as          *)
(* handle_command receives it, with or without an active project            *)
(***************************************************************************)
\* what the user may say
Texts ==
    {"create a work plan for a health company with web research",
     "research solar", "find a workflow", "look up the plan", "search for slides",
     "research project risk", "project health report", "status report in excel",
     "deadline risk", "open gmail", "find and open gmail", "Open Gmail and export to word",
     "summarize the last email", "read last email then open youtube", "open youtube",
     "open youtube in a new tab", "open a new tab", " New Tab ", "new tab please",
     "export to word", "make a powerpoint", "hello", "finder", "researching",
     "research contry risk", "contrys", "CONTRY contry", "a contry-wide plan",
     "export play", "Export Play to word", "export player",
     "research the rise of I", "the rise of i in tech", "rise of i", "rise of it in ai",
     "export play on the rise of i contry"}

InitText ==
    /\ AsideIdle
    /\ state = FreshState
    /\ wf = FreshSession
    /\ nproj \in 0..1
    /\ project = IF nproj = 0 THEN NoneV ELSE Some(CreateProject("Alpha", 0))
    /\ pc = "input"
    /\ result = NoTurn
    /\ turns = 0
    /\ reply \in Texts
    /\ selected = NoneV

\* intent = _classify_intent(cmd): lines 337 and 348
ClassifyText ==
    /\ pc = "input"
    /\ selected' = Some(ClassifyIntent(Lower(Strip(reply)), ~IsNone(project)))
    /\ pc' = "classified"
    /\ UNCHANGED << state, wf, project, nproj, result, turns, reply >>
    /\ UNCHANGED aside

\* normalized_text, corrections = _normalize_stt_text(text): line 804
NormalizeText ==
    /\ pc = "input"
    /\ result' = Some(NormalizeSttText(reply))
    /\ pc' = "normalized"
    /\ UNCHANGED << state, wf, project, nproj, turns, reply, selected >>
    /\ UNCHANGED aside

NextText == ClassifyText \/ NormalizeText

SpecText == InitText /\ [][NextText]_vars

(***************************************************************************)
(* chat_with_ai: src/engine/ai_chat.py                                     *)
(***************************************************************************)
\* the messages and attachments chat_with_ai is called with
ChatMessages == {"", "plan my week", " plan my week ", "what is hipaa"}
ChatFiles == {<< >>, << [type |-> "image/png", name |-> "site.png"] >>}
\* the texts the two APIs answer with when a call succeeds
ChatReplies == [groq |-> "Here is a short plan.", gemini |-> "Start with the top three tasks."]


\* _local_fallback_response
LocalFallbackResponse(message) ==
    LET shown(preview) ==
            "I could not reach the main models right now.\n"
            \o "- Request captured: " \o (IF preview # "" THEN preview ELSE "No text provided")
            \o "\n"
            \o "- Try again in a moment, or ask for a shorter response.\n"
            \o "Would you like a quick outline instead?"
        cut(preview) ==
            shown(IF Len(preview) > 120 THEN SubSeq(preview, 1, 120) \o "..." ELSE preview)
    IN  cut(Strip(message))

\* _chat_with_gemini_text: raised says whether the call raised
ChatWithGeminiText(keys, gemini) ==
    IF ~keys.gemini THEN [raised |-> FALSE, text |-> "AI unavailable (no API keys configured)."]
    ELSE IF gemini = "ok" THEN [raised |-> FALSE, text |-> ChatReplies.gemini]
    ELSE IF gemini = "no_text" THEN [raised |-> FALSE, text |-> "Gemini returned no response."]
    ELSE IF gemini = "http_429"
    THEN [raised |-> FALSE, text |-> "Gemini error: 429 - Rate limited or overloaded."]
    ELSE [raised |-> FALSE, text |-> "Gemini error: <urlopen error timed out>"]

\* _chat_with_gemini_vision: the text it returns and the providers it called
ChatWithGeminiVision(keys, groq, gemini) ==
    IF ~keys.gemini
    THEN [text |-> "Vision unavailable (no GEMINI_API_KEY). Please add images via upload.",
          tried |-> << >>]
    ELSE IF gemini = "ok" THEN [text |-> ChatReplies.gemini, tried |-> << "gemini" >>]
    ELSE IF gemini = "no_text"
    THEN [text |-> "Vision request completed but returned no text.", tried |-> << "gemini" >>]
    ELSE IF gemini = "http_429"
    THEN (IF keys.groq /\ groq = "ok" THEN [text |-> ChatReplies.groq, tried |-> << "gemini", "groq" >>]
          ELSE [text |-> "Vision error: HTTP 429 - Gemini overloaded. Try again in a minute.",
                tried |-> IF keys.groq THEN << "gemini", "groq" >> ELSE << "gemini" >>])
    ELSE [text |-> "Vision error: <urlopen error timed out>", tried |-> << "gemini" >>]

\* _cache_get: the entry of key, unless there is none or its time has run out
CacheGet(cache, key, expired) ==
    IF expired \/ ~\E e \in cache : e.key = key THEN NoneV
    ELSE Some((CHOOSE e \in cache : e.key = key).value)

\* _cache_set
CacheSet(cache, key, value) == {e \in cache : e.key # key} \cup {[key |-> key, value |-> value]}

\* chat_with_ai(message, files) with the cache and the keys it finds: expired
\* says whether the cached entry of the message is older than CACHE_TTL_SECONDS,
\* groq and gemini how the calls of the providers end. The record holds the
\* text returned, whether the call raised, the providers called in order, and
\* the cache left behind.
ChatWithAi(message, files, cache, keys, expired, groq, gemini) ==
    LET cacheKey == IF message # "" /\ files = << >> THEN "text::" \o Strip(message) ELSE ""
        \* _TEXT_CACHE.pop(key, None) of _cache_get
        looked == IF cacheKey # "" /\ expired THEN {e \in cache : e.key # cacheKey} ELSE cache
        cached == IF cacheKey # "" THEN CacheGet(cache, cacheKey, expired) ELSE NoneV
        done(text, tried, left, hit) ==
            [message |-> message, files |-> files, text |-> text, raised |-> FALSE,
             tried |-> tried, hit |-> hit, groq |-> groq, gemini |-> gemini, cache |-> left]
        stored(text, tried) ==
            done(text, tried, IF cacheKey # "" THEN CacheSet(looked, cacheKey, text) ELSE looked,
                 FALSE)
        \* lines 199-210 and 213-221
        viaGemini(r, tried) ==
            IF r.raised THEN done(LocalFallbackResponse(message), tried, looked, FALSE)
            ELSE stored(r.text, tried)
        vision(r) == done(r.text, r.tried, looked, FALSE)
    IN  IF message = "" /\ files = << >> THEN done("I'm listening...", << >>, cache, FALSE)
        ELSE IF ~IsNone(cached) /\ Val(cached) # "" THEN done(Val(cached), << >>, looked, TRUE)
        ELSE IF HasImages(files) THEN vision(ChatWithGeminiVision(keys, groq, gemini))
        ELSE IF keys.groq
        THEN (IF groq = "ok" THEN stored(ChatReplies.groq, << "groq" >>)
              ELSE IF keys.gemini
              THEN viaGemini(ChatWithGeminiText(keys, gemini), << "groq", "gemini" >>)
              ELSE done(LocalFallbackResponse(message), << "groq" >>, looked, FALSE))
        ELSE IF keys.gemini
        THEN viaGemini(ChatWithGeminiText(keys, gemini), << "gemini" >>)
        ELSE done(LocalFallbackResponse(message), << >>, looked, FALSE)

\* the module as loaded: an empty cache, and the keys the environment holds
InitChat ==
    /\ state = FreshState
    /\ wf = FreshSession
    /\ project = NoneV
    /\ nproj = 0
    /\ pc = "input"
    /\ result = NoTurn
    /\ turns = 0
    /\ reply = ""
    /\ selected = NoneV
    /\ textCache = {}
    /\ apiKeys \in [groq : BOOLEAN, gemini : BOOLEAN]
    /\ playing = NoneV

\* ai_text = chat_with_ai(text, files): main.py 552 and 796
ChatCall(message, files, expired, groq, gemini) ==
    /\ pc = "input"
    /\ result' = Some(ChatWithAi(message, files, textCache, apiKeys, expired, groq, gemini))
    /\ textCache' = Val(result').cache
    /\ reply' = message
    /\ UNCHANGED << state, wf, project, nproj, pc, turns, selected, apiKeys, playing >>

\* groq and gemini say how the calls of the two APIs end: _chat_with_groq
\* returns the text or raises; Gemini answers with a text, with a body without
\* candidates, with HTTPError 429 on every model, or fails otherwise
NextChat ==
    \E message \in ChatMessages : \E files \in ChatFiles : \E expired \in BOOLEAN :
        \E groq \in {"ok", "error"} : \E gemini \in {"ok", "no_text", "http_429", "error"} :
            ChatCall(message, files, expired, groq, gemini)

SpecChat == InitChat /\ [][NextChat]_vars

(***************************************************************************)
(* The voice loop: src/main.py 853-876 with speak of src/voice/voice_io.py *)
(***************************************************************************)
\* mode == "voice" before line 857: nothing said yet
InitVoice ==
    /\ state = FreshState
    /\ wf = FreshSession
    /\ project = NoneV
    /\ nproj = 0
    /\ pc = "boot"
    /\ result = NoTurn
    /\ turns = 0
    /\ reply = ""
    /\ selected = NoneV
    /\ AsideIdle

\* speak("Assistant online."): _tts_engine.say(text) is entered
VoiceStart ==
    /\ pc = "boot"
    /\ playing' = Some("Assistant online.")
    /\ pc' = "speak"
    /\ UNCHANGED << state, wf, project, nproj, result, turns, reply, selected, textCache, apiKeys >>

\* lines 864-872: listen_command() returned heard, which is no utterance
VoiceListen(heard) ==
    /\ pc = "listen"
    /\ reply' = heard
    /\ IF Lower(heard) \in {"exit", "quit"}
       THEN playing' = Some("Goodbye.") /\ pc' = "bye"
       ELSE UNCHANGED << playing, pc >>
    /\ UNCHANGED << state, wf, project, nproj, result, turns, selected, textCache, apiKeys >>

\* lines 873-875 and 884-885: handle_command(text), print, and speak(say_text)
\* entered; a turn that raised prints the error and says nothing
VoiceTurn(u, o) ==
    /\ pc = "listen"
    /\ turns < MaxTurns
    /\ turns' = turns + 1
    /\ reply' = u.text
    /\ result' = Some(Turn(u.text, u.files, state, wf, project, nproj, o))
    /\ Val(result').nproj <= MaxProjects
    /\ Len(Val(result').wf.artifacts) <= MaxArtifacts
    /\ state' = IF Val(result').project # project THEN FreshState ELSE Val(result').state
    /\ wf' = IF Val(result').project # project THEN FreshSession ELSE Val(result').wf
    /\ project' = Val(result').project
    /\ nproj' = Val(result').nproj
    /\ IF Val(result').raised
       THEN UNCHANGED << playing, pc >>
       ELSE playing' = Some(Val(Val(result').resp).say_text) /\ pc' = "speak"
    /\ UNCHANGED << selected, textCache, apiKeys >>

\* _tts_engine.runAndWait() returns, or raises and the error is logged:
\* speak returns to line 859, or to the break of line 872
SpeakEnd ==
    /\ pc \in {"speak", "bye"}
    /\ playing' = NoneV
    /\ pc' = IF pc = "bye" THEN "done" ELSE "listen"
    /\ UNCHANGED << state, wf, project, nproj, result, turns, reply, selected, textCache, apiKeys >>

\* listen_command returns a timeout, another failure of the microphone, a word
\* that ends the loop, or an utterance
NextVoice ==
    \/ VoiceStart
    \/ \E heard \in {"VOICE_ERROR: Timeout", "VOICE_ERROR: Module not found", "exit", "Quit"} :
          VoiceListen(heard)
    \/ \E u \in {w \in Utterances : w.text \in {"hello", "yes", "research country risk"}} :
          \E o \in TurnOutcomes(u.text, u.files, state, wf, project) : VoiceTurn(u, o)
    \/ SpeakEnd

SpecVoice == InitVoice /\ [][NextVoice]_vars

(***************************************************************************)
(* extract_youtube_video_id: src/engine/youtube_learning.py                *)
(***************************************************************************)
\* _YOUTUBE_ID_RE.fullmatch(s): eleven characters of [A-Za-z0-9_-]
IsYoutubeId(s) == Len(s) = 11 /\ \A i \in 1..Len(s) : Ch(s, i) \in WordSet \cup {"-"}

\* extract_youtube_video_id(text_or_url): raised says whether the call raised
\* (the IndexError of line 42, the ValueError of urlparse), value is what it
\* returned. urlparse and parse_qs are computed as urllib computes them for
\* text without '%', '+', ';' and control characters.
ExtractYoutubeVideoId(text_or_url) ==
    LET returned(v) == [raised |-> FALSE, value |-> v]
        raise == [raised |-> TRUE, value |-> NoneV]
        idOrNone(vid) == returned(IF IsYoutubeId(vid) THEN Some(vid) ELSE NoneV)
        \* str.split("/")[k] of a path stripped of "/": the k-th segment
        \* (k from 0), NoneV when the list is shorter than that
        nth(cuts, k) == CHOOSE c \in cuts : Cardinality({d \in cuts : d < c}) = k
        segmentIn(stripped, cuts, k) ==
            IF Cardinality(cuts) < k + 2 THEN NoneV
            ELSE Some(SubSeq(stripped, nth(cuts, k) + 1, nth(cuts, k + 1) - 1))
        segmentOf(stripped, k) ==
            segmentIn(stripped,
                      {0, Len(stripped) + 1} \cup {i \in 1..Len(stripped) : Ch(stripped, i) = "/"},
                      k)
        segment(path, k) == segmentOf(StripSet(path, {"/"}), k)
        orRaise(seg) == IF IsNone(seg) THEN raise ELSE idOrNone(Val(seg))
        \* parse_qs(query).get("v"): the values of the pairs v=..., blank ones
        \* dropped; [0] of them
        pairFrom(query, amps, c) == SubSeq(query, c + 1, MinOf({d \in amps : d > c}) - 1)
        valueOf(pair) == Some(SubSeq(pair, 3, Len(pair)))
        firstOf(query, amps, vStarts) ==
            IF vStarts = {} THEN NoneV ELSE valueOf(pairFrom(query, amps, MinOf(vStarts)))
        inPairs(query, amps) ==
            firstOf(query, amps,
                    {c \in amps : /\ c <= Len(query)
                                  /\ Len(pairFrom(query, amps, c)) > 2
                                  /\ SubSeq(pairFrom(query, amps, c), 1, 2) = "v="})
        v(query) ==
            inPairs(query, {0, Len(query) + 1} \cup {i \in 1..Len(query) : Ch(query, i) = "&"})
        orNone(found) == IF IsNone(found) THEN returned(NoneV) ELSE idOrNone(Val(found))
        \* lines 31-45
        route(netloc, host, path, query) ==
            IF Contains(netloc, "[") # Contains(netloc, "]") THEN raise
            ELSE IF Contains(host, "youtu.be") THEN orRaise(segment(path, 0))
            ELSE IF Contains(host, "youtube.com")
            THEN (IF path = "/watch" THEN orNone(v(query))
                  ELSE IF StartsWith(path, "/shorts/") \/ StartsWith(path, "/embed/")
                  THEN orRaise(segment(path, 1))
                  ELSE returned(NoneV))
            ELSE returned(NoneV)
        \* urlsplit: scheme, then //netloc, then #fragment and ?query cut off
        atQuery(netloc, noFragment, queryAt) ==
            route(netloc, Lower(netloc), SubSeq(noFragment, 1, queryAt - 1),
                  SubSeq(noFragment, queryAt + 1, Len(noFragment)))
        atFragment(netloc, noFragment) ==
            atQuery(netloc, noFragment, FirstInside(noFragment, 1, {"?"}))
        afterNetloc(netloc, tail) ==
            atFragment(netloc, SubSeq(tail, 1, FirstInside(tail, 1, {"#"}) - 1))
        atNetloc(rest, netlocEnd) ==
            afterNetloc(SubSeq(rest, 3, netlocEnd - 1), SubSeq(rest, netlocEnd, Len(rest)))
        afterScheme(rest) ==
            IF StartsWith(rest, "//") THEN atNetloc(rest, FirstInside(rest, 3, {"/", "?", "#"}))
            ELSE afterNetloc("", rest)
        atColon(url, colon) ==
            IF /\ colon > 1
               /\ Ch(url, 1) \in AlphaSet
               /\ \A i \in 1..(colon - 1) : Ch(url, i) \in AlphaSet \cup DigitSet \cup {"+", "-", "."}
            THEN afterScheme(SubSeq(url, colon + 1, Len(url)))
            ELSE afterScheme(url)
        urlparse(url) == atColon(url, Find(url, ":"))
        \* _URL_RE.search(raw): the leftmost https?://[^\s]+
        fromStarts(raw, urlStarts) ==
            IF urlStarts = {} THEN urlparse(raw)
            ELSE urlparse(SubSeq(raw, MinOf(urlStarts),
                                 FirstInside(raw, MinOf(urlStarts), SpaceSet) - 1))
        search(raw) ==
            fromStarts(raw,
                {i \in 1..Len(raw) :
                    \E scheme \in {"http://", "https://"} :
                        /\ i + Len(scheme) <= Len(raw)
                        /\ SubSeq(raw, i, i + Len(scheme) - 1) = scheme
                        /\ Ch(raw, i + Len(scheme)) \notin SpaceSet})
        stripped(raw) ==
            IF raw = "" THEN returned(NoneV)
            ELSE IF IsYoutubeId(raw) THEN returned(Some(raw))
            ELSE search(raw)
    IN  stripped(Strip(text_or_url))

\* the texts the extraction is applied to: the samples of
\* src/test_youtube_learning.py, and the same URL forms with a short id, an
\* overlong id and no id, inside a sentence and with further parameters
YoutubeTexts ==
    {before \o base \o id \o after :
        before \in {"", "watch this "},
        base \in {"", "https://youtu.be/", "https://www.youtube.com/watch?v=",
                  "https://www.youtube.com/watch?t=1&v=", "https://www.youtube.com/shorts/",
                  "https://www.youtube.com/embed/", "https://example.com/watch?v=",
                  "//youtu.be/", "http://[youtu.be/"},
        id \in {"dQw4w9WgXcQ", "short", "", "dQw4w9WgXcQx"},
        after \in {"", " now", "&t=43s now", "/"}}
    \cup {"not a url", "  "}

InitYoutube ==
    /\ AsideIdle
    /\ state = FreshState
    /\ wf = FreshSession
    /\ project = NoneV
    /\ nproj = 0
    /\ pc = "input"
    /\ result = NoTurn
    /\ turns = 0
    /\ reply \in YoutubeTexts
    /\ selected = NoneV

\* video_id = extract_youtube_video_id(text_or_url)
ExtractCall ==
    /\ pc = "input"
    /\ result' = Some(ExtractYoutubeVideoId(reply))
    /\ pc' = "extracted"
    /\ UNCHANGED << state, wf, project, nproj, turns, reply, selected >>
    /\ UNCHANGED aside

SpecYoutube == InitYoutube /\ [][ExtractCall]_vars

(***************************************************************************)
(* A conversation of clarifications: a workflow request answered with      *)
(* clarify_workflow, then the user selecting the quick replies offered     *)
(***************************************************************************)
\* text = input("> ") of line 877 returns the first request, one for a workflow
AskWorkflow(text) ==
    /\ pc = "input"
    /\ reply' = text
    /\ pc' = "heard"
    /\ UNCHANGED << state, wf, project, nproj, result, turns, selected >>
    /\ UNCHANGED aside

\* line 877 returns the answer to a clarification: the user selects the k-th
\* quick reply offered, by its number or by its label
SelectOption(k, byLabel) ==
    /\ pc = "clarify"
    /\ ~IsNone(wf.pending)
    /\ k <= Len(Val(wf.pending).options)
    /\ reply' = IF byLabel THEN Val(wf.pending).options[k].label ELSE "option " \o ToString(k)
    /\ pc' = "heard"
    /\ UNCHANGED << state, wf, project, nproj, result, turns, selected >>
    /\ UNCHANGED aside

\* result = handle_command(text) of line 880: the loop is at "clarify" while the
\* response is the clarification of lines 603-632, and has "left" otherwise
HandleReply(o) ==
    /\ pc = "heard"
    /\ result' = Some(Turn(reply, << >>, state, wf, project, nproj, o))
    /\ state' = IF Val(result').project # project THEN FreshState ELSE Val(result').state
    /\ wf' = IF Val(result').project # project THEN FreshSession ELSE Val(result').wf
    /\ project' = Val(result').project
    /\ nproj' = Val(result').nproj
    /\ pc' = IF ~Val(result').raised /\ Val(Val(result').resp).meta.intent = "clarify_workflow"
             THEN "clarify" ELSE "left"
    /\ UNCHANGED << turns, reply, selected >>
    /\ UNCHANGED aside

NextClarify ==
    \/ \E domain \in {"health", "finance", "retail", "education", "logistics", "insurance"} :
          \E area \in {"", "claims ", "billing ", "audit "} :
             \E tail \in {"", " with hipaa compliance", " to reduce delays"} :
                AskWorkflow("build a " \o area \o "workflow for a " \o domain \o " company" \o tail)
    \/ \E k \in 1..2 : \E byLabel \in BOOLEAN : SelectOption(k, byLabel)
    \/ \E o \in TurnOutcomes(reply, << >>, state, wf, project) : HandleReply(o)

\* the user answers every clarification (weak fairness of SelectOption), and
\* handle_command, which is enabled whenever a reply was heard, returns or
\* raises for every reply
SpecClarify ==
    /\ Init
    /\ [][NextClarify]_vars
    /\ WF_vars(\E k \in 1..2 : \E byLabel \in BOOLEAN : SelectOption(k, byLabel))
    /\ []<>(pc # "heard")

(***************************************************************************)
(* Properties of the pending action after a turn (specification Spec)      *)
(***************************************************************************)
\* C1: in every state, and for the session entry a turn worked on, pending is
\* either None or a pending action with at least one option or a non-empty
\* question.
C1PendingWellFormed ==
    \A p \in {wf.pending}
             \cup (IF result = NoTurn THEN {}
                   ELSE {Val(result).wf.pending, Val(result).before.wf.pending}) :
        IsNone(p) \/ Len(Val(p).options) >= 1 \/ Val(p).question # ""

\* a turn has returned and left a pending action that has a question and no option
C1Witness ==
    /\ pc = "print"
    /\ result # NoTurn
    /\ ~IsNone(Val(result).wf.pending)
    /\ Val(Val(result).wf.pending).options = << >>
    /\ Val(Val(result).wf.pending).question # ""

\* C2 as stated: when a turn returns, the pending action of the session the turn
\* worked on exists exactly if the response has actions or its show text's last
\* line ends in "?", its options are the response's actions in order and its
\* default command is the first action's command ("" without actions).
C2OptionsAreTheActions ==
    (pc = "print" /\ result # NoTurn /\ ~Val(result).raised) =>
        LET r    == Val(Val(result).resp)
            p    == Val(result).wf.pending
            acts == r.actions
        IN  IF acts # << >> \/ EndsWith(LastLine(r.show_text), "?")
            THEN /\ ~IsNone(p)
                 /\ Val(p).options = acts
                 /\ Val(p).default_command = (IF acts = << >> THEN "" ELSE acts[1].command)
            ELSE IsNone(p)

\* C2 as the code has it: the same, with every option being the action with its
\* label and command stripped of surrounding whitespace, and the default command
\* the stripped command of the first action.
C2OptionsAreTheStrippedActions ==
    (pc = "print" /\ result # NoTurn /\ ~Val(result).raised) =>
        LET r    == Val(Val(result).resp)
            p    == Val(result).wf.pending
            acts == r.actions
        IN  IF acts # << >> \/ EndsWith(LastLine(r.show_text), "?")
            THEN /\ ~IsNone(p)
                 /\ Len(Val(p).options) = Len(acts)
                 /\ \A k \in 1..Len(acts) :
                       Val(p).options[k] = [label |-> Strip(acts[k].label),
                                            command |-> Strip(acts[k].command)]
                 /\ Val(p).default_command =
                       (IF acts = << >> THEN "" ELSE Strip(acts[1].command))
            ELSE IsNone(p)

\* a turn on a session that held a pending action has returned and left another one
C2Witness ==
    /\ pc = "print"
    /\ result # NoTurn
    /\ ~Val(result).raised
    /\ ~IsNone(Val(result).before.wf.pending)
    /\ ~IsNone(Val(result).wf.pending)
    /\ Val(result).wf.pending # Val(result).before.wf.pending
    /\ Val(Val(result).resp).actions # << >>

\* C5: with a pending action whose default command is not empty, an affirmative
\* reply hands exactly the default command to the command core.
C5AffirmativeRunsDefault ==
    (/\ pc = "print"
     /\ result # NoTurn
     /\ ~IsNone(Val(result).before.wf.pending)
     /\ IsAffirmative(Val(result).text)) =>
        LET default == Val(Val(result).before.wf.pending).default_command
        IN  default # "" =>
               /\ Len(Val(result).coreCalls) = 1
               /\ Val(result).coreCalls[1].command = default

\* C6: with a pending action set, a negative reply returns the cancellation reply
\* and the session's pending action is None when the turn returns.
C6CancelLeavesNoPending ==
    (/\ pc = "print"
     /\ result # NoTurn
     /\ ~IsNone(Val(result).before.wf.pending)
     /\ IsNegative(Val(result).text)) =>
        /\ ~Val(result).raised
        /\ Val(Val(result).resp).meta.intent = "pending_cancel"
        /\ IsNone(Val(result).wf.pending)

\* C7: on a session without a pending action an affirmative reply returns the
\* pending_none response, the command core is not invoked, no collaborator is
\* called, and slots, last research, last intent, artifacts, files, context and
\* the project stay as they were.
C7AffirmativeWithoutPending ==
    (/\ pc = "print"
     /\ result # NoTurn
     /\ IsNone(Val(result).before.wf.pending)
     /\ IsAffirmative(Val(result).text)) =>
        /\ ~Val(result).raised
        /\ Val(Val(result).resp).meta.intent = "pending_none"
        /\ StartsWith(Val(Val(result).resp).show_text, "I do not have a pending action yet.")
        /\ Val(result).coreCalls = << >>
        /\ Val(result).calls = << >>
        /\ Val(result).state = Val(result).before.state
        /\ Val(result).project = Val(result).before.project
        /\ [Val(result).wf EXCEPT !.pending = NoneV]
              = [Val(result).before.wf EXCEPT !.pending = NoneV]

\* "yes" was said to a session without a pending action
C7Witness ==
    /\ pc = "print"
    /\ result # NoTurn
    /\ IsNone(Val(result).before.wf.pending)
    /\ Val(result).text = "yes"
    /\ Val(Val(result).resp).meta.intent = "pending_none"

\* C8: a reply that resolves the pending action (an option matches, or it is
\* affirmative and there is a default) has the pending action cleared before the
\* one call of the command core, which gets the resolved command, and the
\* response's meta.debug holds it as resolved_from_pending; the response of a
\* turn that resolved nothing holds no resolved_from_pending.
C8ResolvedCommandDispatchedOnce ==
    (pc = "print" /\ result # NoTurn) =>
        LET t        == Val(result)
            old      == t.before.wf.pending
            said     == Lower(Strip(NormalizeSttText(t.text).text))
            byOption == IF IsNone(old) THEN NoneV ELSE MatchPendingOption(said, Val(old))
            default  == IF IsNone(old) THEN "" ELSE Strip(Val(old).default_command)
            resolves == /\ ~IsNone(old)
                        /\ ~IsNegative(said)
                        /\ (~IsNone(byOption) \/ (IsAffirmative(said) /\ default # ""))
            command  == IF ~IsNone(byOption) THEN Val(byOption) ELSE default
        IN  IF resolves
            THEN /\ Len(t.coreCalls) = 1
                 /\ t.coreCalls[1].command = command
                 /\ IsNone(t.coreCalls[1].pending)
                 /\ (~t.raised =>
                        Val(t.resp).meta.debug.resolved_from_pending = Some(command))
            ELSE ~t.raised => IsNone(Val(t.resp).meta.debug.resolved_from_pending)

\* a reply resolved the pending action and the response names the command
C8Witness ==
    /\ pc = "print"
    /\ result # NoTurn
    /\ ~Val(result).raised
    /\ ~IsNone(Val(result).before.wf.pending)
    /\ Val(result).text = "option 2"
    /\ Len(Val(result).coreCalls) = 1
    /\ ~IsNone(Val(Val(result).resp).meta.debug.resolved_from_pending)

(***************************************************************************)
(* Properties of _match_pending_option (specification SpecMatch)           *)
(***************************************************************************)
\* C3: a reply that is not negative and refers to "option k" resolves to the
\* command of the k-th option when 1 <= k <= n; when k is out of range the
\* result is None or the command of an option whose label or command matches.
C3OptionByIndex ==
    (pc = "print" /\ ~IsNegative(reply) /\ ~IsNone(OptionRef(reply))) =>
        LET k    == ParseInt(Val(OptionRef(reply)))
            opts == Val(wf.pending).options
        IN  IF 1 <= k /\ k <= Len(opts)
            THEN selected = Some(opts[k].command)
            ELSE \/ IsNone(selected)
                 \/ \E j \in 1..Len(opts) :
                       /\ LabelMatches(reply, opts[j]) \/ CommandMatches(reply, opts[j])
                       /\ selected = Some(opts[j].command)

\* "option 2 botswana" was answered to the country question: the second option
\* was taken although the first one is labelled Botswana
C3Witness ==
    /\ pc = "print"
    /\ reply = "option 2 botswana"
    /\ Len(Val(wf.pending).options) = 3
    /\ Val(wf.pending).options[1].label = "Botswana"
    /\ selected = Some(Val(wf.pending).options[2].command)

\* C4: with pairwise distinct labels, a reply without an option reference that
\* equals the lower-case label of option j resolves to the command of option j.
C4ReplyEqualToLabel ==
    (pc = "print" /\ IsNone(OptionRef(reply))) =>
        LET opts == Val(wf.pending).options
        IN  (\A i, j \in 1..Len(opts) : i # j => opts[i].label # opts[j].label) =>
               \A j \in 1..Len(opts) :
                  reply = Lower(Strip(opts[j].label)) => selected = Some(opts[j].command)

\* C9: without an in-range option reference, when the label of some option
\* matches the reply, the result is the command of an option whose label matches.
C9LabelBeatsCommand ==
    pc = "print" =>
        LET opts == Val(wf.pending).options
            ref  == OptionRef(reply)
            inRange == IF IsNone(ref) THEN FALSE
                       ELSE 1 <= ParseInt(Val(ref)) /\ ParseInt(Val(ref)) <= Len(opts)
        IN  IF inRange THEN selected = Some(opts[ParseInt(Val(ref))].command)
            ELSE (\E j \in 1..Len(opts) : LabelMatches(reply, opts[j])) =>
                    \E j \in 1..Len(opts) :
                       LabelMatches(reply, opts[j]) /\ selected = Some(opts[j].command)

\* C10: without an in-range option reference and without a label match, a reply
\* that contains the command of an option resolves to the command of such an
\* option.
C10CommandContainedInReply ==
    pc = "print" =>
        LET opts == Val(wf.pending).options
            ref  == OptionRef(reply)
            inRange == IF IsNone(ref) THEN FALSE
                       ELSE 1 <= ParseInt(Val(ref)) /\ ParseInt(Val(ref)) <= Len(opts)
            holds(j) == Contains(reply, Lower(Strip(opts[j].command)))
        IN  (/\ ~inRange
             /\ \A j \in 1..Len(opts) : ~LabelMatches(reply, opts[j])
             /\ \E j \in 1..Len(opts) : holds(j)) =>
                \E j \in 1..Len(opts) : holds(j) /\ selected = Some(opts[j].command)

(***************************************************************************)
(* Properties of _classify_intent and _normalize_stt_text (SpecText)        *)
(***************************************************************************)
\* C11: the tag _classify_intent returns is that of the first rule, in the fixed
\* order, that the command matches; a command with a research marker and "plan"
\* or "workflow" is never classified research, and project_analysis is never
\* returned without an active project.
C11FirstMatchingRule ==
    pc = "classified" =>
        LET cmd == Lower(Strip(reply))
            research == IsResearchRequest(cmd)
            planned == Contains(cmd, "plan") \/ Contains(cmd, "workflow")
            rules == << << research /\ planned, "research_plan" >>,
                        << research, "research" >>,
                        << IsProjectAnalysisRequest(cmd) /\ ~IsNone(project), "project_analysis" >>,
                        << Contains(cmd, "open gmail"), "open_gmail" >>,
                        << \E p \in {"summarise the last email", "summarize the last email",
                                     "read last email"} : Contains(cmd, p),
                           "gmail_summary" >>,
                        << Contains(cmd, "open youtube"), "open_youtube" >>,
                        << Contains(cmd, "open a new tab") \/ cmd = "new tab", "open_new_tab" >>,
                        << \E w \in {"word", "docx", "powerpoint", "ppt", "slides", "excel", "xlsx",
                                     "spreadsheet"} : Contains(cmd, w),
                           "export_ref" >>,
                        << TRUE, "default" >> >>
        IN  /\ selected = Some(rules[MinOf({k \in 1..Len(rules) : rules[k][1]})][2])
            /\ (research /\ planned) => selected # Some("research")
            /\ IsNone(project) => selected # Some("project_analysis")

\* a command with a research marker and "plan" is classified, as research_plan,
\* also when a later rule matches it too
C11Witness ==
    /\ pc = "classified"
    /\ reply = "create a work plan for a health company with web research"
    /\ selected = Some("research_plan")

\* C20: normalizing the text _normalize_stt_text returned yields that same text
\* and no correction tag, and a tag is recorded only for a rule that changed
\* the text.
C20NormalizeIdempotent ==
    pc = "normalized" =>
        /\ NormalizeSttText(Val(result).text) = [text |-> Val(result).text, changes |-> << >>]
        /\ Val(result).changes # << >> => Val(result).text # reply

(***************************************************************************)
(* Properties of the command core (specification Spec)                      *)
(***************************************************************************)
\* C12 as stated: with no stored research, a turn that answers with an export
\* intent returns the "What should I research first?" prompt, calls no export
\* collaborator and records no artifact.
C12ExportAsksForResearch ==
    (/\ pc = "print"
     /\ result # NoTurn
     /\ ~Val(result).raised
     /\ IsNone(Val(result).before.wf.last_research)
     /\ StartsWith(Val(Val(result).resp).meta.intent, "export")) =>
        /\ Val(Val(result).resp).show_text = "What should I research first?"
        /\ \A k \in 1..Len(Val(result).calls) : ~StartsWith(Val(result).calls[k], "export_")
        /\ Val(result).wf.artifacts = Val(result).before.wf.artifacts

\* C12 as the code has it: with no stored research, no turn calls an exporter of
\* the stored research or records an artifact, and a turn that reaches the
\* export of the stored research (an export target with a backward reference or
\* a literal export prefix) returns the "What should I research first?" prompt
\* without calling a collaborator.
C12ResearchExportGuard ==
    (/\ pc = "print"
     /\ result # NoTurn
     /\ IsNone(Val(result).before.wf.last_research)) =>
        LET t == Val(result)
        IN  /\ \A k \in 1..Len(t.calls) :
                  t.calls[k] \notin {"export_docx_from_research", "export_pptx_from_research",
                                     "export_xlsx_from_research"}
            /\ t.wf.artifacts = t.before.wf.artifacts
            /\ \A c \in 1..Len(t.coreCalls) :
                  Route(t.coreCalls[c].command, t.files, t.state, t.before.wf, t.before.project)
                      \in {"export_no_research", "export_research"} =>
                     /\ ~t.raised
                     /\ Val(t.resp).show_text = "What should I research first?"
                     /\ Val(t.resp).meta.intent = "export"
                     /\ t.calls = << >>

\* "export to excel" was said to a session without stored research
C12Witness ==
    /\ pc = "print"
    /\ result # NoTurn
    /\ IsNone(Val(result).before.wf.last_research)
    /\ Val(result).coreCalls = << [command |-> "export to excel", pending |-> NoneV] >>
    /\ Val(Val(result).resp).show_text = "What should I research first?"

\* C13: a turn calls an exporter of the stored research only if the dispatched
\* command, trimmed and in lower case, contains an export-target keyword and
\* also a backward-reference cue or starts with a literal export prefix.
C13ExportNeedsReference ==
    (/\ pc = "print"
     /\ result # NoTurn
     /\ \E k \in 1..Len(Val(result).calls) :
           Val(result).calls[k] \in {"export_docx_from_research", "export_pptx_from_research",
                                     "export_xlsx_from_research"}) =>
        /\ Len(Val(result).coreCalls) = 1
        /\ LET cmd == Lower(Strip(Val(result).coreCalls[1].command))
           IN  /\ \E w \in {"word", "docx", "powerpoint", "ppt", "slides", "excel", "xlsx",
                            "spreadsheet"} : Contains(cmd, w)
               /\ \/ \E c \in {"that", "this", "it", "research", "from this", "use the research"} :
                        Contains(cmd, c)
                  \/ \E p \in {"export to ", "make a powerpoint", "make powerpoint"} :
                        StartsWith(cmd, p)

\* the stored research was exported on "export to excel"
C13Witness ==
    /\ pc = "print"
    /\ result # NoTurn
    /\ Val(result).calls = << "export_xlsx_from_research" >>
    /\ Val(result).text = "export to excel"
    /\ ~IsNone(Val(result).before.wf.last_research)
    /\ Len(Val(result).wf.artifacts) = 1

\* C14 as stated: when the dispatched command asks to build, create or make a
\* workflow and one of the slots company, area, goal, compliance level is unset
\* after slot extraction, the turn generates no plan, offers at most two quick
\* replies and shows none of the missing questions beyond the first two.
C14ClarifiesBeforePlanning ==
    (/\ pc = "print"
     /\ result # NoTurn
     /\ ~Val(result).raised
     /\ Len(Val(result).coreCalls) = 1
     /\ Contains(Lower(Val(result).coreCalls[1].command), "workflow")
     /\ \E v \in {"build", "create", "make"} :
           Contains(Lower(Val(result).coreCalls[1].command), v)
     /\ \E f \in {"company_name", "chosen_workflow_area", "goal", "compliance_level"} :
           Val(result).state[f] = "") =>
        /\ \A k \in 1..Len(Val(result).calls) :
              Val(result).calls[k] \notin {"generate_plan", "create_project", "save_tasks"}
        /\ Val(result).project = Val(result).before.project
        /\ Len(Val(Val(result).resp).actions) <= 2

\* C14 as the code has it: the same for a command that no handler ahead of the
\* clarification takes (cut-off, Gmail, country, YouTube, new tab, research,
\* researched plan, project analysis, images, greeting, help, identity); the
\* response then is the clarification with exactly the first two missing
\* questions, in the order company, area, goal, compliance, as bullets.
C14ClarificationQuestions ==
    (/\ pc = "print"
     /\ result # NoTurn
     /\ ~Val(result).raised
     /\ Len(Val(result).coreCalls) = 1
     /\ Contains(Lower(Val(result).coreCalls[1].command), "workflow")
     /\ \E v \in {"build", "create", "make"} :
           Contains(Lower(Val(result).coreCalls[1].command), v)
     /\ \E f \in {"company_name", "chosen_workflow_area", "goal", "compliance_level"} :
           Val(result).state[f] = ""
     /\ Route(Val(result).coreCalls[1].command, Val(result).files, Val(result).state,
              Val(result).before.wf, Val(result).before.project)
           \notin {"cutoff", "open_gmail", "gmail_summary", "gmail_setup", "gmail_skip",
                   "specify_country", "open_youtube", "open_new_tab", "research_country",
                   "research", "research_plan", "project_analysis", "vision_chat",
                   "greeting", "help", "identity"}) =>
        LET t == Val(result)
            asked == << << "company_name", "Which company or team is this for?" >>,
                        << "chosen_workflow_area", "Which workflow area should I target?" >>,
                        << "goal", "What is your primary goal for this workflow?" >>,
                        << "compliance_level", "Any compliance level should I apply?" >> >>
            unset == {k \in 1..Len(asked) : t.state[asked[k][1]] = ""}
            firstTwo == {k \in unset : Cardinality({j \in unset : j < k}) < 2}
        IN  /\ Val(t.resp).meta.intent = "clarify_workflow"
            /\ \A k \in 1..Len(asked) :
                  Contains(Val(t.resp).show_text, "\n- " \o asked[k][2]) <=> k \in firstTwo
            /\ \A k \in firstTwo : \A j \in firstTwo :
                  k < j => Find(Val(t.resp).show_text, asked[k][2])
                              < Find(Val(t.resp).show_text, asked[j][2])
            /\ Len(Val(t.resp).actions) <= 2
            /\ t.calls = << >>
            /\ t.project = t.before.project

\* a workflow was asked for with three slots unset and the clarification came
C14Witness ==
    /\ pc = "print"
    /\ result # NoTurn
    /\ Val(result).coreCalls = << [command |-> "make a project workflow for a health company",
                                   pending |-> NoneV] >>
    /\ Val(result).state.company_name # ""
    /\ Val(result).state.goal = ""
    /\ Val(Val(result).resp).meta.intent = "clarify_workflow"


\* C15: when the research branch has called research_topic_with_wikipedia and the
\* payload holds fewer than three sources (none at all when the provider
\* failed, the query was empty or nothing was found), the turn returns a
\* response: it ends with the question "Which country or sub-topic should I
\* focus on?", offers at least two actions that each carry a label and a
\* command, and the pending action the turn leaves on the session has at least
\* two options.
C15FewSourcesAsk ==
    (/\ pc = "print"
     /\ result # NoTurn
     /\ Len(Val(result).coreCalls) = 1
     /\ ~GoalSplitRaises(Val(result).before.state, Val(result).coreCalls[1].command)
     /\ Route(Val(result).coreCalls[1].command, Val(result).files,
              UpdateStateFromText(Val(result).before.state, Val(result).coreCalls[1].command),
              [Val(result).before.wf EXCEPT !.pending = Val(result).coreCalls[1].pending],
              Val(result).before.project) = "research"
     /\ Val(result).outcome.n < 3) =>
        LET t == Val(result)
        IN  /\ ~t.raised
            /\ t.calls = << "research_topic_with_wikipedia" >>
            /\ Val(t.resp).meta.intent = "research"
            /\ EndsWith(Val(t.resp).show_text, "\nWhich country or sub-topic should I focus on?")
            /\ Len(Val(t.resp).actions) >= 2
            /\ \A k \in 1..Len(Val(t.resp).actions) :
                  /\ Strip(Val(t.resp).actions[k].label) # ""
                  /\ Strip(Val(t.resp).actions[k].command) # ""
            /\ ~IsNone(t.wf.pending)
            /\ Len(Val(t.wf.pending).options) >= 2
            /\ Val(t.wf.pending).question = "Which country or sub-topic should I focus on?"

\* the provider failed on a research the user confirmed, and the retry options
\* are pending
C15Witness ==
    /\ pc = "print"
    /\ result # NoTurn
    /\ Val(result).path \in {"affirmative", "option"}
    /\ Val(result).calls = << "research_topic_with_wikipedia" >>
    /\ Val(result).outcome.reason = "provider_failure"
    /\ ~IsNone(wf.pending)
    /\ Len(Val(wf.pending).options) = 3


\* C16: a turn whose utterance is a greeting ("hello", "hi") returns a response
\* with intent greeting and a non-empty list of actions, and calls no
\* collaborator, whether or not an action is pending.
C16GreetingIsAnswered ==
    (/\ pc = "print"
     /\ result # NoTurn
     /\ IsGreeting(Lower(Strip(Val(result).text)))) =>
        /\ ~Val(result).raised
        /\ Val(Val(result).resp).meta.intent = "greeting"
        /\ Val(Val(result).resp).actions # << >>
        /\ Val(result).calls = << >>


\* C17: every turn that returns, on whichever path (cancel, option, affirmative,
\* pending_none, direct) and from whichever handler, returns a dictionary with
\* exactly the keys say_text, show_text, evidence, files, actions and meta,
\* whose meta holds exactly intent, verbosity, sources and debug; say_text and
\* show_text are strings and evidence, files and actions are lists.
C17ResponseContract ==
    (/\ pc = "print"
     /\ result # NoTurn
     /\ ~Val(result).raised) =>
        LET resp == Val(Val(result).resp)
        IN  /\ DOMAIN resp = {"say_text", "show_text", "evidence", "files", "actions", "meta"}
            /\ DOMAIN resp.meta = {"intent", "verbosity", "sources", "debug"}
            /\ \A f \in {"evidence", "files", "actions"} : DOMAIN resp[f] = 1..Len(resp[f])
            /\ \A f \in {"say_text", "show_text"} : resp[f] \o "" = resp[f]
            /\ resp.meta.intent # ""
            /\ resp.meta.verbosity \in {"quick", "standard", "detailed"}

\* a pending action was cancelled and the reply built by handle_command itself
\* came back in the contract
C17Witness ==
    /\ pc = "print"
    /\ result # NoTurn
    /\ Val(result).path = "cancel"
    /\ Val(result).coreCalls = << >>
    /\ ~IsNone(Val(result).resp)
    /\ Val(Val(result).resp).meta.intent = "pending_cancel"
    /\ Val(Val(result).resp).files = << >>


\* C18: when handle_command raised, the loop that called it keeps running and
\* what it gives the user is the generic apology of the error contract, which
\* does not contain the text of the exception.
C18RaisedTurnGetsApology ==
    (/\ pc = "print"
     /\ result # NoTurn
     /\ Val(result).raised) =>
        /\ ENABLED PrintResult
        /\ Printed(Val(result)) = ErrorContract.show_text
        /\ ~Contains(Printed(Val(result)), ExceptionText(Val(result)))


\* C19: when a turn raised, the slots and the session entry (pending, context,
\* last_research, last_files, last_intent, artifacts) are what they were
\* before the turn; a pending action the turn was resolving is still pending.
C19FailedTurnKeepsSession ==
    (/\ pc = "print"
     /\ result # NoTurn
     /\ Val(result).raised) =>
        /\ state = Val(result).before.state
        /\ wf = Val(result).before.wf
        /\ (Val(result).path \in {"option", "affirmative"} => ~IsNone(wf.pending))

(***************************************************************************)
(* Properties of the session store (specification Spec)                    *)
(***************************************************************************)
\* C21: a slot of the entry a turn works on that holds a value before the turn
\* holds the same value after it, whatever the turn did (answered, dispatched
\* a pending command, created a project, raised).
C21SlotsSetOnce ==
    (/\ pc = "print"
     /\ result # NoTurn) =>
        \A f \in {"company_name", "domain", "chosen_workflow_area", "goal", "compliance_level"} :
            Val(result).before.state[f] # "" =>
                Val(result).state[f] = Val(result).before.state[f]

\* the domain was health, the turn ran the core on a command that names no
\* domain, and the domain is still health
C21Witness ==
    /\ pc = "print"
    /\ result # NoTurn
    /\ Val(result).before.state.domain = "health"
    /\ Len(Val(result).coreCalls) = 1
    /\ ~Contains(Lower(Val(result).coreCalls[1].command), "health")
    /\ state.domain = "health"


\* C22: after a turn that ran the command core and returned, last_intent of
\* the session entry is the meta.intent of the response the turn returned.
C22LastIntentIsTheIntent ==
    (/\ pc = "print"
     /\ result # NoTurn
     /\ ~Val(result).raised
     /\ Len(Val(result).coreCalls) = 1) =>
        Val(result).wf.last_intent = Some(Val(Val(result).resp).meta.intent)


\* C26: the session record a turn wrote (its pending action and last_research)
\* is the record the next turn reads, also when the turn created or activated
\* a project.
C26NextTurnReadsWhatWasWritten ==
    (pc = "print" /\ result # NoTurn) =>
        /\ wf.pending = Val(result).wf.pending
        /\ wf.last_research = Val(result).wf.last_research

\* C27: once the country question for a topic was answered by selecting the
\* Botswana or the United States option and that research has run, a turn
\* about the same topic does not ask the country question again.
C27CountryAskedOnce ==
    (/\ pc = "print"
     /\ result # NoTurn
     /\ ~Val(result).raised
     /\ Val(Val(result).resp).meta.debug.research_reason = Some("country_missing")) =>
        LET t == Val(result)
            topic == ExtractResearchTopic(t.coreCalls[Len(t.coreCalls)].command)
        IN  \A country \in {"Botswana", "United States"} :
                t.before.wf.context.topic # Some(topic \o " in " \o country)

\* C28: with a pending action whose default command is empty, a bare
\* affirmative reply that matches no option is handed as it is to the command
\* core, and the response is not the pending_none response.
C28AffirmativeFallsThroughToCore ==
    (/\ pc = "print"
     /\ result # NoTurn
     /\ ~Val(result).raised
     /\ ~IsNone(Val(result).before.wf.pending)
     /\ IsAffirmative(Val(result).text)) =>
        LET t == Val(result)
            pending == Val(t.before.wf.pending)
        IN  (/\ pending.default_command = ""
             /\ IsNone(MatchPendingOption(Lower(Strip(t.text)), pending))) =>
                /\ Len(t.coreCalls) = 1
                /\ t.coreCalls[1].command = t.text
                /\ Val(t.resp).meta.intent # "pending_none"

(***************************************************************************)
(* A further property of _match_pending_option (specification SpecMatch)   *)
(***************************************************************************)
\* C29: with a pending action that has options, an empty or whitespace-only
\* reply selects no option, so no option's command is dispatched for it.
C29EmptyReplySelectsNothing ==
    (/\ pc = "print"
     /\ Strip(reply) = ""
     /\ Val(wf.pending).options # << >>) => IsNone(selected)

(***************************************************************************)
(* Properties of chat_with_ai (specification SpecChat)                     *)
(***************************************************************************)
\* C23: a text-only call of chat_with_ai that finds nothing in the cache never
\* raises, calls Groq before Gemini, and when every provider that has a key
\* failed it returns the local fallback text.
C23FallsBackToLocalText ==
    (/\ result # NoTurn
     /\ Val(result).message # ""
     /\ Val(result).files = << >>
     /\ ~Val(result).hit) =>
        LET r == Val(result)
            failed == /\ (apiKeys.groq => r.groq = "error")
                      /\ (apiKeys.gemini => r.gemini \in {"http_429", "error"})
        IN  /\ ~r.raised
            /\ r.tried \in {<< >>, << "groq" >>, << "gemini" >>, << "groq", "gemini" >>}
            /\ (failed => r.text = LocalFallbackResponse(r.message))


C25ExtractsIdOrNone ==
    (pc = "extracted") =>
        LET r == Val(result)
            forms == {"", "https://youtu.be/", "https://www.youtube.com/watch?v=",
                      "https://www.youtube.com/shorts/", "https://www.youtube.com/embed/"}
        IN  /\ ~r.raised
            /\ (IsNone(r.value) \/ IsYoutubeId(Val(r.value)))
            /\ (\E base \in forms : \E before \in {"", "watch this "} :
                    \E after \in {"", " now", "&t=43s now"} :
                        /\ reply = before \o base \o "dQw4w9WgXcQ" \o after
                        /\ (after = "&t=43s now" => base = "https://www.youtube.com/watch?v=")
                        /\ (base = "" => before = "" /\ after = ""))
               => r.value = Some("dQw4w9WgXcQ")
            /\ ~Contains(reply, "dQw4w9WgXcQ") => IsNone(r.value)


(***************************************************************************)
(* Properties of the clarification (specification SpecClarify)             *)
(***************************************************************************)
\* C30: from a clarify_workflow response, a user who answers every
\* clarification by selecting one of the quick replies offered eventually gets
\* a response whose intent is not clarify_workflow.
C30ClarificationEnds == (pc = "clarify") ~> (pc = "left")

====
